---- MODULE Spec2Model ----
(***************************************************************************)
(* A model of the shell lexer (rune source, position index, tokenizers,    *)
(* heredoc body readers) and of the AST node model's Pos()/End() methods   *)
(* of the vendored mvdan/sh syntax package.                                *)
(*                                                                         *)
(* Bytes and runes are integers (code points); a string is a sequence of   *)
(* bytes.  The parser struct is the record p; a method of the parser is an *)
(* operator from the record to the record after the call.                  *)
(***************************************************************************)
EXTENDS Integers, Sequences, FiniteSets, TLC

VARIABLES
    p,       \* the parser struct (lexer fields, p.f.lines, p.f.Comments)
    input,   \* the bytes the reader p.src was created over
    res,     \* what the last operation returned / observed
    ast      \* the grammar driver's node construction state

vars == <<p, input, res, ast>>

(***************************************************************************)
(* Bounds of the model.                                                    *)
(***************************************************************************)
MaxRunes == 3      \* characters of an input of the position specification
MaxChunk == 2      \* most bytes one Read call of the reader returns
BufSize == 8       \* len(p.readBuf) of the model

(***************************************************************************)
(* Characters.                                                             *)
(***************************************************************************)
chTab == 9
chNewline == 10
chCR == 13
chSpace == 32
chExcl == 33
chDquote == 34
chHash == 35
chDollar == 36
chPercent == 37
chAmp == 38
chSquote == 39
chLparen == 40
chRparen == 41
chStar == 42
chPlus == 43
chComma == 44
chMinus == 45
chSlash == 47
chColon == 58
chSemi == 59
chLess == 60
chEquals == 61
chGreater == 62
chQuest == 63
chAt == 64
chUpperE == 69
chUpperO == 79
chLbrack == 91
chBackslash == 92
chRbrack == 93
chCaret == 94
chBquote == 96
chLowerA == 97
chLbrace == 123
chPipe == 124
chRbrace == 125

RuneSelf == 128
RuneError == 65533
UTFMax == 4
\* Pos is a uint32.  The integers of the checker end at 2^31 - 1, so a Pos
\* that wrapped below 0 is held as PosTop + x instead of 2^32 + x: a value
\* above every position of an input, as in the program.
PosTop == 2147483647

Min(a, b) == IF a < b THEN a ELSE b
Max(a, b) == IF a > b THEN a ELSE b

(***************************************************************************)
(* unicode/utf8 as the lexer uses it.                                      *)
(***************************************************************************)
IsCont(b) == b >= 128 /\ b <= 191

\* utf8.DecodeRune: the rune and its width; (RuneError, 1) for an invalid
\* or truncated encoding, (RuneError, 0) for no bytes.
DecodeRune(s) ==
    LET n == Len(s)
        bad == [r |-> RuneError, w |-> 1]
    IN  IF n = 0 THEN [r |-> RuneError, w |-> 0]
        ELSE LET b0 == s[1] IN
        IF b0 < 128 THEN [r |-> b0, w |-> 1]
        ELSE IF b0 >= 194 /\ b0 <= 223 THEN
            IF n >= 2 /\ IsCont(s[2])
            THEN [r |-> (b0 - 192) * 64 + (s[2] - 128), w |-> 2]
            ELSE bad
        ELSE IF b0 >= 224 /\ b0 <= 239 THEN
            IF n >= 3 /\ IsCont(s[2]) /\ IsCont(s[3])
               /\ (b0 = 224 => s[2] >= 160) /\ (b0 = 237 => s[2] <= 159)
            THEN [r |-> (b0 - 224) * 4096 + (s[2] - 128) * 64 + (s[3] - 128),
                  w |-> 3]
            ELSE bad
        ELSE IF b0 >= 240 /\ b0 <= 244 THEN
            IF n >= 4 /\ IsCont(s[2]) /\ IsCont(s[3]) /\ IsCont(s[4])
               /\ (b0 = 240 => s[2] >= 144) /\ (b0 = 244 => s[2] <= 143)
            THEN [r |-> (b0 - 240) * 262144 + (s[2] - 128) * 4096
                         + (s[3] - 128) * 64 + (s[4] - 128),
                  w |-> 4]
            ELSE bad
        ELSE bad

\* utf8.RuneLen
RuneLen(r) ==
    IF r < 0 THEN -1
    ELSE IF r < 128 THEN 1
    ELSE IF r < 2048 THEN 2
    ELSE IF r >= 55296 /\ r <= 57343 THEN -1
    ELSE IF r < 65536 THEN 3
    ELSE IF r <= 1114111 THEN 4
    ELSE -1

(***************************************************************************)
(* The parser struct.                                                      *)
(***************************************************************************)
\* The reader p.src: the bytes it has not delivered yet, the most it
\* delivers per Read, the error it returns once they are delivered, and
\* whether it returns that error together with the last bytes (late) or
\* by a Read of its own.  done: Read has returned the error; over: Read
\* was called again after that.
NewReader(data, chunk) ==
    [data |-> data, chunk |-> chunk, end |-> "EOF", late |-> FALSE,
     done |-> FALSE, over |-> FALSE]

\* The parser as Parse sets it up over a reader, before the first rune().
NewParser(data, chunk, bashMode, comments, quote) ==
    [ src |-> NewReader(data, chunk),
      bash |-> bashMode,            \* mode & PosixConformant == 0
      parseComments |-> comments,   \* mode & ParseComments > 0
      bs |-> <<>>, npos |-> 0, offs |-> 0, r |-> 0,
      readErr |-> "nil", err |-> "nil", errPos |-> 0,
      litNil |-> TRUE, litBs |-> <<>>,
      lines |-> <<0>>, Comments |-> <<>>,
      tok |-> "illegalTok", val |-> <<>>, pos |-> 0,
      spaced |-> FALSE, newLine |-> FALSE, asPos |-> 0,
      quote |-> quote,
      hdocStopNil |-> TRUE, hdocStop |-> <<>>,
      heredocs |-> <<>>, buriedHdocs |-> 0,
      bodies |-> <<>> ]              \* the Hdoc words given to the Redirects

getPos(q) == q.offs + q.npos

\* errPass via posErr: the first error wins and ends the token stream.
posErr(q, pos, msg) ==
    IF q.err = "nil"
    THEN [q EXCEPT !.err = msg, !.errPos = pos, !.tok = "_EOF"]
    ELSE q

\* p.src.Read(buf) with len(buf) = space.
SrcRead(src, space) ==
    LET n == Min(Min(src.chunk, Len(src.data)), space)
        last == src.late /\ n = Len(src.data)
    IN  IF src.done
        THEN [n |-> 0, bytes |-> <<>>, err |-> src.end,
              src |-> [src EXCEPT !.over = TRUE]]
        ELSE IF n = 0
        THEN [n |-> 0, bytes |-> <<>>, err |-> src.end,
              src |-> [src EXCEPT !.done = TRUE]]
        ELSE [n |-> n, bytes |-> SubSeq(src.data, 1, n),
              err |-> IF last THEN src.end ELSE "nil",
              src |-> [src EXCEPT !.data = SubSeq(@, n + 1, Len(@)),
                                  !.done = last]]

\* The element of a singleton: Only({ e(x) : x \in {v} }) is e(v), with v
\* computed once and used under the name x, as a local variable is.
Only(S) == CHOOSE v \in S : TRUE

\* mutant: an error of the reader is not stored in p.err
fillDropsErr(q) ==
    LET left == Len(q.bs) - q.npos
        rest == SubSeq(q.bs, q.npos + 1, Len(q.bs))
    IN  Only({ [q EXCEPT !.offs = @ + q.npos,
                         !.src = rd.src,
                         !.readErr = rd.err,
                         !.bs = rest \o rd.bytes,
                         !.npos = 0]
               : rd \in { IF q.readErr = "nil"
                          THEN SrcRead(q.src, BufSize - left)
                          ELSE [n |-> 0, bytes |-> <<>>, err |-> q.readErr, src |-> q.src] } })

fill(q) ==
    LET left == Len(q.bs) - q.npos
        rest == SubSeq(q.bs, q.npos + 1, Len(q.bs))
    IN  Only({ [q EXCEPT !.offs = @ + q.npos,
                         !.src = rd.src,
                         !.readErr = rd.err,
                         !.err = IF rd.n = 0 /\ rd.err # "nil" /\ rd.err # "EOF"
                                 THEN rd.err ELSE @,
                         !.bs = rest \o rd.bytes,
                         !.npos = 0]
               : rd \in { IF q.readErr = "nil"
                          THEN SrcRead(q.src, BufSize - left)
                          ELSE [n |-> 0, bytes |-> <<>>, err |-> q.readErr, src |-> q.src] } })

litAppend(q, bytes) ==
    IF q.litNil THEN q ELSE [q EXCEPT !.litBs = @ \o bytes]

\* mutant: the error is reported at the position after the rune read
runeMultiPosAfter(q1) ==
    Only({ Only({ IF d.r = RuneError /\ d.w = 1
                  THEN posErr(q3, getPos(q3) + 1, "invalid UTF-8 encoding")
                  ELSE q3
                  : q3 \in { [litAppend(q1, SubSeq(q1.bs, q1.npos + 1, q1.npos + d.w))
                                  EXCEPT !.r = d.r, !.npos = @ + d.w] } })
           : d \in { DecodeRune(SubSeq(q1.bs, q1.npos + 1, Len(q1.bs))) } })

\* the multi-byte branch of rune(), the buffer refilled when it had to be
runeMulti(q1) ==
    Only({ Only({ IF d.r = RuneError /\ d.w = 1
                  THEN posErr(q3, getPos(q3), "invalid UTF-8 encoding")
                  ELSE q3
                  : q3 \in { [litAppend(q1, SubSeq(q1.bs, q1.npos + 1, q1.npos + d.w))
                                  EXCEPT !.r = d.r, !.npos = @ + d.w] } })
           : d \in { DecodeRune(SubSeq(q1.bs, q1.npos + 1, Len(q1.bs))) } })

RECURSIVE rune(_)
\* the retry of rune() once the buffer has been refilled
runeRetry(q1) ==
    IF Len(q1.bs) = 0
    THEN [q1 EXCEPT !.npos = @ + 1, !.r = RuneSelf]
    ELSE rune(q1)

rune(q) ==
    IF q.npos < Len(q.bs) THEN
        LET b == q.bs[q.npos + 1] IN
        IF b < RuneSelf THEN
            LET q1 == [q EXCEPT !.npos = @ + 1]
                q2 == IF b = chNewline
                      THEN [q1 EXCEPT !.lines = Append(@, getPos(q1))]
                      ELSE q1
            IN  [litAppend(q2, <<b>>) EXCEPT !.r = b]
        ELSE IF q.npos + UTFMax >= Len(q.bs)
        THEN Only({ runeMulti(x) : x \in {fill(q)} })
        ELSE runeMulti(q)
    ELSE IF q.r = RuneSelf THEN q
    ELSE Only({ runeRetry(x) : x \in {fill(q)} })

unrune(q, r) ==
    IF q.r # RuneSelf
    THEN [q EXCEPT !.npos = @ - RuneLen(q.r), !.r = r]
    ELSE q

\* peekByte: the parser after the call and the answer.
peekByte(q, b) ==
    Only({ [q |-> q1, ok |-> q1.npos < Len(q1.bs) /\ q1.bs[q1.npos + 1] = b]
           : q1 \in { IF q.npos = Len(q.bs) /\ q.readErr = "nil" THEN fill(q) ELSE q } })

(***************************************************************************)
(* The position index.                                                     *)
(***************************************************************************)
\* mutant: the upper half is cut with j = h - 1
RECURSIVE searchLoopCutsHigh(_, _, _, _)
searchLoopCutsHigh(a, x, i, j) ==
    IF i < j
    THEN LET h == i + ((j - i) \div 2) IN
         IF a[h + 1] <= x
         THEN searchLoopCutsHigh(a, x, h + 1, j)
         ELSE searchLoopCutsHigh(a, x, i, h - 1)
    ELSE i - 1

RECURSIVE searchLoop(_, _, _, _)
searchLoop(a, x, i, j) ==
    IF i < j
    THEN LET h == i + ((j - i) \div 2) IN
         IF a[h + 1] <= x
         THEN searchLoop(a, x, h + 1, j)
         ELSE searchLoop(a, x, i, h)
    ELSE i - 1

searchPos(a, x) == searchLoop(a, x, 0, Len(a))

\* mutant: the line is the index found, not the index + 1
PositionLineIsIndex(lines, x) ==
    LET i == searchPos(lines, x) IN
    [ Offset |-> x - 1,
      Line |-> IF i >= 0 THEN i ELSE 0,
      Column |-> IF i >= 0 THEN x - lines[i + 1] ELSE 0 ]

Position(lines, x) ==
    LET i == searchPos(lines, x) IN
    [ Offset |-> x - 1,
      Line |-> IF i >= 0 THEN i + 1 ELSE 0,
      Column |-> IF i >= 0 THEN x - lines[i + 1] ELSE 0 ]

(***************************************************************************)
(* Quote states (the sets are the masks of the parser).                    *)
(***************************************************************************)
allKeepSpaces ==
    {"paramExpRepl", "dblQuotes", "hdocBody", "hdocBodyTabs", "paramExpExp",
     "sglQuotes"}
allRegTokens == {"noState", "subCmd", "subCmdBckquo", "hdocWord", "switchCase"}
allParamArith == {"paramExpInd", "paramExpOff", "paramExpLen"}
allArithmExpr ==
    {"arithmExpr", "arithmExprLet", "arithmExprCmd", "arithmExprBrack"}
        \cup allParamArith
allRbrack == {"arithmExprBrack", "paramExpInd"}
allParamReg == {"paramExpName"} \cup allParamArith
allParamExp == allParamReg \cup {"paramExpRepl", "paramExpExp"}

(***************************************************************************)
(* Character classes.                                                      *)
(***************************************************************************)
regOps(r) ==
    r \in {chSemi, chDquote, chSquote, chLparen, chRparen, chDollar, chPipe,
           chAmp, chGreater, chLess, chBquote}

paramOps(r) ==
    r \in {chRbrace, chHash, chColon, chMinus, chPlus, chEquals, chQuest,
           chPercent, chLbrack, chRbrack, chSlash, chCaret, chComma, chAt}

arithmOps(r) ==
    r \in {chPlus, chMinus, chExcl, chStar, chSlash, chPercent, chLparen,
           chRparen, chCaret, chLess, chGreater, chColon, chEquals, chComma,
           chQuest, chPipe, chAmp, chRbrack}

wordBreak(r) ==
    r \in {chSpace, chTab, chNewline, chSemi, chAmp, chGreater, chLess,
           chPipe, chLparen, chRparen, chCR}

(***************************************************************************)
(* The literal buffer.                                                     *)
(***************************************************************************)
newLit(q, r) ==
    IF r <= RuneSelf
    THEN [q EXCEPT !.litNil = FALSE, !.litBs = <<r>>]
    ELSE IF q.npos <= Len(q.bs)
    THEN IF q.npos - RuneLen(r) < 0
         THEN \* slice bounds out of range: the call never returns; the
              \* parser is left as at the end of input, nothing more is read
              [q EXCEPT !.err = "panic", !.r = RuneSelf,
                        !.litNil = FALSE, !.litBs = <<RuneSelf>>]
         ELSE [q EXCEPT !.litNil = FALSE,
                        !.litBs = SubSeq(q.bs, q.npos - RuneLen(r) + 1,
                                         q.npos)]
    ELSE q

discardLit(q, n) == [q EXCEPT !.litBs = SubSeq(@, 1, Len(@) - n)]

\* endLit: the parser after the call and the string returned
endLit(q) ==
    [ q |-> [q EXCEPT !.litNil = TRUE, !.litBs = <<>>],
      s |-> IF q.r = RuneSelf THEN q.litBs
            ELSE IF Len(q.litBs) > 0 THEN SubSeq(q.litBs, 1, Len(q.litBs) - 1)
            ELSE <<>> ]

\* p.tok, p.val = tok, p.endLit()
setLit(q, tok) ==
    [q EXCEPT !.litNil = TRUE, !.litBs = <<>>, !.tok = tok,
              !.val = endLit(q).s]

(***************************************************************************)
(* Operator tokenizers: the parser after the call and the token returned.  *)
(***************************************************************************)
T(q, tok) == [q |-> q, tok |-> tok]

\* mutant: "<<-" is read as "<<", the dash is left
regTokenNoDash(q, r) ==
    CASE r = chSquote -> T(rune(q), "sglQuote")
      [] r = chDquote -> T(rune(q), "dblQuote")
      [] r = chBquote -> T(rune(q), "bckQuote")
      [] r = chAmp -> Only({ IF q1.r = chAmp THEN T(rune(q1), "andAnd")
                             ELSE IF q1.r = chGreater /\ q1.bash THEN
                                 Only({ IF q2.r = chGreater THEN T(rune(q2), "appAll")
                                        ELSE T(q2, "rdrAll")
                                        : q2 \in { rune(q1) } })
                             ELSE T(q1, "and")
                             : q1 \in { rune(q) } })
      [] r = chPipe -> Only({ IF q1.r = chPipe THEN T(rune(q1), "orOr")
                              ELSE IF q1.r = chAmp /\ q1.bash THEN T(rune(q1), "pipeAll")
                              ELSE T(q1, "or")
                              : q1 \in { rune(q) } })
      [] r = chDollar -> Only({ IF q1.r = chSquote /\ q1.bash THEN T(rune(q1), "dollSglQuote")
                                ELSE IF q1.r = chDquote /\ q1.bash THEN T(rune(q1), "dollDblQuote")
                                ELSE IF q1.r = chLbrace THEN T(rune(q1), "dollBrace")
                                ELSE IF q1.r = chLbrack /\ q1.bash THEN T(rune(q1), "dollBrack")
                                ELSE IF q1.r = chLparen THEN
                                    Only({ IF q2.r = chLparen THEN T(rune(q2), "dollDblParen")
                                           ELSE T(q2, "dollParen")
                                           : q2 \in { rune(q1) } })
                                ELSE T(q1, "dollar")
                                : q1 \in { rune(q) } })
      [] r = chLparen -> Only({ IF q1.r = chLparen /\ q1.bash THEN T(rune(q1), "dblLeftParen")
                                ELSE T(q1, "leftParen")
                                : q1 \in { rune(q) } })
      [] r = chRparen -> T(rune(q), "rightParen")
      [] r = chSemi -> Only({ IF q1.r = chSemi THEN
                                  Only({ IF q2.r = chAmp /\ q2.bash THEN T(rune(q2), "dblSemiFall")
                                         ELSE T(q2, "dblSemicolon")
                                         : q2 \in { rune(q1) } })
                              ELSE IF q1.r = chAmp /\ q1.bash THEN T(rune(q1), "semiFall")
                              ELSE T(q1, "semicolon")
                              : q1 \in { rune(q) } })
      [] r = chLess -> Only({ IF q1.r = chLess THEN
                                  Only({ IF q2.r = chLess /\ q2.bash THEN T(rune(q2), "wordHdoc")
                                         ELSE T(q2, "hdoc")
                                         : q2 \in { rune(q1) } })
                              ELSE IF q1.r = chGreater THEN T(rune(q1), "rdrInOut")
                              ELSE IF q1.r = chAmp THEN T(rune(q1), "dplIn")
                              ELSE IF q1.r = chLparen /\ q1.bash THEN T(rune(q1), "cmdIn")
                              ELSE T(q1, "rdrIn")
                              : q1 \in { rune(q) } })
      [] OTHER ->   \* '>'
            Only({ IF q1.r = chGreater THEN T(rune(q1), "appOut")
                   ELSE IF q1.r = chAmp THEN T(rune(q1), "dplOut")
                   ELSE IF q1.r = chPipe THEN T(rune(q1), "clbOut")
                   ELSE IF q1.r = chLparen /\ q1.bash THEN T(rune(q1), "cmdOut")
                   ELSE T(q1, "rdrOut")
                   : q1 \in { rune(q) } })

regToken(q, r) ==
    CASE r = chSquote -> T(rune(q), "sglQuote")
      [] r = chDquote -> T(rune(q), "dblQuote")
      [] r = chBquote -> T(rune(q), "bckQuote")
      [] r = chAmp -> Only({ IF q1.r = chAmp THEN T(rune(q1), "andAnd")
                             ELSE IF q1.r = chGreater /\ q1.bash THEN
                                 Only({ IF q2.r = chGreater THEN T(rune(q2), "appAll")
                                        ELSE T(q2, "rdrAll")
                                        : q2 \in { rune(q1) } })
                             ELSE T(q1, "and")
                             : q1 \in { rune(q) } })
      [] r = chPipe -> Only({ IF q1.r = chPipe THEN T(rune(q1), "orOr")
                              ELSE IF q1.r = chAmp /\ q1.bash THEN T(rune(q1), "pipeAll")
                              ELSE T(q1, "or")
                              : q1 \in { rune(q) } })
      [] r = chDollar -> Only({ IF q1.r = chSquote /\ q1.bash THEN T(rune(q1), "dollSglQuote")
                                ELSE IF q1.r = chDquote /\ q1.bash THEN T(rune(q1), "dollDblQuote")
                                ELSE IF q1.r = chLbrace THEN T(rune(q1), "dollBrace")
                                ELSE IF q1.r = chLbrack /\ q1.bash THEN T(rune(q1), "dollBrack")
                                ELSE IF q1.r = chLparen THEN
                                    Only({ IF q2.r = chLparen THEN T(rune(q2), "dollDblParen")
                                           ELSE T(q2, "dollParen")
                                           : q2 \in { rune(q1) } })
                                ELSE T(q1, "dollar")
                                : q1 \in { rune(q) } })
      [] r = chLparen -> Only({ IF q1.r = chLparen /\ q1.bash THEN T(rune(q1), "dblLeftParen")
                                ELSE T(q1, "leftParen")
                                : q1 \in { rune(q) } })
      [] r = chRparen -> T(rune(q), "rightParen")
      [] r = chSemi -> Only({ IF q1.r = chSemi THEN
                                  Only({ IF q2.r = chAmp /\ q2.bash THEN T(rune(q2), "dblSemiFall")
                                         ELSE T(q2, "dblSemicolon")
                                         : q2 \in { rune(q1) } })
                              ELSE IF q1.r = chAmp /\ q1.bash THEN T(rune(q1), "semiFall")
                              ELSE T(q1, "semicolon")
                              : q1 \in { rune(q) } })
      [] r = chLess -> Only({ IF q1.r = chLess THEN
                                  Only({ IF q2.r = chMinus THEN T(rune(q2), "dashHdoc")
                                         ELSE IF q2.r = chLess /\ q2.bash THEN T(rune(q2), "wordHdoc")
                                         ELSE T(q2, "hdoc")
                                         : q2 \in { rune(q1) } })
                              ELSE IF q1.r = chGreater THEN T(rune(q1), "rdrInOut")
                              ELSE IF q1.r = chAmp THEN T(rune(q1), "dplIn")
                              ELSE IF q1.r = chLparen /\ q1.bash THEN T(rune(q1), "cmdIn")
                              ELSE T(q1, "rdrIn")
                              : q1 \in { rune(q) } })
      [] OTHER ->   \* '>'
            Only({ IF q1.r = chGreater THEN T(rune(q1), "appOut")
                   ELSE IF q1.r = chAmp THEN T(rune(q1), "dplOut")
                   ELSE IF q1.r = chPipe THEN T(rune(q1), "clbOut")
                   ELSE IF q1.r = chLparen /\ q1.bash THEN T(rune(q1), "cmdOut")
                   ELSE T(q1, "rdrOut")
                   : q1 \in { rune(q) } })

\* mutant: "$[" is an arithmetic expansion in POSIX mode too
dqTokenBrackAlways(q, r) ==
    CASE r = chDquote -> T(rune(q), "dblQuote")
      [] r = chBquote -> T(rune(q), "bckQuote")
      [] OTHER ->
            Only({ IF q1.r = chLbrace THEN T(rune(q1), "dollBrace")
                   ELSE IF q1.r = chLbrack THEN T(rune(q1), "dollBrack")
                   ELSE IF q1.r = chLparen THEN
                       Only({ IF q2.r = chLparen THEN T(rune(q2), "dollDblParen")
                              ELSE T(q2, "dollParen")
                              : q2 \in { rune(q1) } })
                   ELSE T(q1, "dollar")
                   : q1 \in { rune(q) } })

dqToken(q, r) ==
    CASE r = chDquote -> T(rune(q), "dblQuote")
      [] r = chBquote -> T(rune(q), "bckQuote")
      [] OTHER ->   \* '$'
            Only({ IF q1.r = chLbrace THEN T(rune(q1), "dollBrace")
                   ELSE IF q1.r = chLbrack /\ q1.bash THEN T(rune(q1), "dollBrack")
                   ELSE IF q1.r = chLparen THEN
                       Only({ IF q2.r = chLparen THEN T(rune(q2), "dollDblParen")
                              ELSE T(q2, "dollParen")
                              : q2 \in { rune(q1) } })
                   ELSE T(q1, "dollar")
                   : q1 \in { rune(q) } })

\* case r2: p.rune(); return two -- else return one
pair(q1, r2, two, one) ==
    IF q1.r = r2 THEN T(rune(q1), two) ELSE T(q1, one)

paramToken(q, r) ==
    CASE r = chRbrace -> T(rune(q), "rightBrace")
      [] r = chColon -> Only({ IF q1.r = chPlus THEN T(rune(q1), "colPlus")
                               ELSE IF q1.r = chMinus THEN T(rune(q1), "colMinus")
                               ELSE IF q1.r = chQuest THEN T(rune(q1), "colQuest")
                               ELSE IF q1.r = chEquals THEN T(rune(q1), "colAssgn")
                               ELSE T(q1, "colon")
                               : q1 \in { rune(q) } })
      [] r = chPlus -> T(rune(q), "plus")
      [] r = chMinus -> T(rune(q), "minus")
      [] r = chQuest -> T(rune(q), "quest")
      [] r = chEquals -> T(rune(q), "assgn")
      [] r = chPercent -> Only({ pair(q1, chPercent, "dblPerc", "perc")
                                 : q1 \in { rune(q) } })
      [] r = chHash -> Only({ pair(q1, chHash, "dblHash", "hash")
                              : q1 \in { rune(q) } })
      [] r = chLbrack -> T(rune(q), "leftBrack")
      [] r = chSlash -> Only({ pair(q1, chSlash, "dblSlash", "slash")
                               : q1 \in { rune(q) } })
      [] r = chCaret -> Only({ pair(q1, chCaret, "dblCaret", "caret")
                               : q1 \in { rune(q) } })
      [] r = chComma -> Only({ pair(q1, chComma, "dblComma", "comma")
                               : q1 \in { rune(q) } })
      [] OTHER -> T(rune(q), "at")   \* default: '@'

\* case same: p.rune(); return two; case '=': p.rune(); return asg
\* -- else return one
cascade(q1, same, two, asg, one) ==
    IF q1.r = same THEN T(rune(q1), two)
    ELSE IF q1.r = chEquals THEN T(rune(q1), asg)
    ELSE T(q1, one)

\* mutant: "<<" and ">>" are returned without a look at the rune after them
shiftNoAssgn(q1, same, shiftTok, shiftAsg, cmp, one) ==
    IF q1.r = same THEN T(rune(q1), shiftTok)
    ELSE IF q1.r = chEquals THEN T(rune(q1), cmp)
    ELSE T(q1, one)

\* case '<' and case '>' of arithmToken once the first rune is consumed
shift(q1, same, shiftTok, shiftAsg, cmp, one) ==
    IF q1.r = same
    THEN Only({ pair(q2, chEquals, shiftAsg, shiftTok) : q2 \in {rune(q1)} })
    ELSE IF q1.r = chEquals THEN T(rune(q1), cmp)
    ELSE T(q1, one)

arithmToken(q, r) ==
    CASE r = chExcl -> Only({ pair(q1, chEquals, "nequal", "exclMark")
                              : q1 \in { rune(q) } })
      [] r = chEquals -> Only({ pair(q1, chEquals, "equal", "assgn")
                                : q1 \in { rune(q) } })
      [] r = chLparen -> T(rune(q), "leftParen")
      [] r = chRparen -> T(rune(q), "rightParen")
      [] r = chAmp -> Only({ cascade(q1, chAmp, "andAnd", "andAssgn", "and")
                             : q1 \in { rune(q) } })
      [] r = chPipe -> Only({ cascade(q1, chPipe, "orOr", "orAssgn", "or")
                              : q1 \in { rune(q) } })
      [] r = chLess -> Only({ shift(q1, chLess, "hdoc", "shlAssgn", "lequal", "rdrIn")
                              : q1 \in { rune(q) } })
      [] r = chGreater -> Only({ shift(q1, chGreater, "appOut", "shrAssgn", "gequal", "rdrOut")
                                 : q1 \in { rune(q) } })
      [] r = chPlus -> Only({ cascade(q1, chPlus, "addAdd", "addAssgn", "plus")
                              : q1 \in { rune(q) } })
      [] r = chMinus -> Only({ cascade(q1, chMinus, "subSub", "subAssgn", "minus")
                               : q1 \in { rune(q) } })
      [] r = chPercent -> Only({ pair(q1, chEquals, "remAssgn", "perc")
                                 : q1 \in { rune(q) } })
      [] r = chStar -> Only({ cascade(q1, chStar, "power", "mulAssgn", "star")
                              : q1 \in { rune(q) } })
      [] r = chSlash -> Only({ pair(q1, chEquals, "quoAssgn", "slash")
                               : q1 \in { rune(q) } })
      [] r = chCaret -> Only({ pair(q1, chEquals, "xorAssgn", "caret")
                               : q1 \in { rune(q) } })
      [] r = chRbrack -> T(rune(q), "rightBrack")
      [] r = chComma -> T(rune(q), "comma")
      [] r = chQuest -> T(rune(q), "quest")
      [] OTHER -> T(rune(q), "colon")   \* default: ':'

\* p.tok = p.regToken(r), p.tok = p.dqToken(r)
setTok(t) == [t.q EXCEPT !.tok = t.tok]

(***************************************************************************)
(* Literals.                                                               *)
(***************************************************************************)
\* the loop of advanceLitNone from its post statement r = p.rune() on
RECURSIVE litNoneLoop(_, _)
litNoneNext(q) == Only({ litNoneLoop(q1, q1.r) : q1 \in {rune(q)} })

\* the loop of advanceLitNone; tok is the token decided when it breaks
litNoneLoop(q, r) ==
    IF r \in {RuneSelf, chSpace, chTab, chNewline, chCR, chAmp, chPipe,
              chSemi, chLparen, chRparen}
    THEN T(q, "_LitWord")
    ELSE IF r = chBackslash THEN
        Only({ IF q1.r = RuneSelf THEN T(q1, "_LitWord")
               ELSE IF q1.r = chNewline THEN litNoneNext(discardLit(q1, 2))
               ELSE litNoneNext(q1)
               : q1 \in { rune(q) } })
    ELSE IF r \in {chGreater, chLess} THEN
        Only({ T(pk.q, IF pk.ok THEN "_Lit" ELSE "_LitRedir")
               : pk \in { peekByte(q, chLparen) } })
    ELSE IF r = chBquote THEN
        T(q, IF q.quote # "subCmdBckquo" THEN "_Lit" ELSE "_LitWord")
    ELSE IF r \in {chDquote, chSquote, chDollar} THEN T(q, "_Lit")
    ELSE IF r \in {chQuest, chStar, chPlus, chAt, chExcl} THEN
        Only({ IF pk.ok THEN T(pk.q, "_Lit") ELSE litNoneNext(pk.q)
               : pk \in { peekByte(q, chLparen) } })
    ELSE IF r = chEquals THEN
        LET n == Len(q.litBs)
            as == n - 1
        IN  litNoneNext([q EXCEPT !.asPos =
                            IF q.bash /\ as > 0 /\ q.litBs[n - 1] = chPlus
                            THEN as - 1 ELSE as])
    ELSE litNoneNext(q)

advanceLitNone(q, r) ==
    Only({ setLit(t.q, t.tok)
           : t \in { litNoneLoop(newLit([q EXCEPT !.asPos = 0], r), r) } })

\* the loop of advanceLitDquote from its post statement r = p.rune() on
RECURSIVE litDquoteLoop(_, _)
litDquoteNext(q) == Only({ litDquoteLoop(q1, q1.r) : q1 \in {rune(q)} })

\* mutant: a space ends the literal, as it does outside quotes
litDquoteLoopBreaksSpace(q, r) ==
    IF r \in {RuneSelf, chDquote, chSpace} THEN T(q, "_LitWord")
    ELSE IF r = chBackslash THEN
        Only({ IF q1.r = RuneSelf THEN T(q1, "_LitWord") ELSE litDquoteNext(q1)
               : q1 \in { rune(q) } })
    ELSE IF r \in {chBquote, chDollar} THEN T(q, "_Lit")
    ELSE litDquoteNext(q)

litDquoteLoop(q, r) ==
    IF r \in {RuneSelf, chDquote} THEN T(q, "_LitWord")
    ELSE IF r = chBackslash THEN
        Only({ IF q1.r = RuneSelf THEN T(q1, "_LitWord") ELSE litDquoteNext(q1)
               : q1 \in { rune(q) } })
    ELSE IF r \in {chBquote, chDollar} THEN T(q, "_Lit")
    ELSE litDquoteNext(q)

advanceLitDquote(q, r) ==
    Only({ setLit(t.q, t.tok) : t \in {litDquoteLoop(newLit(q, r), r)} })

\* the cases of the switch of advanceLitOther that break the loop or do
\* nothing according to the quote state alone
litOtherBreaks(quote, r) ==
    CASE r = chNewline ->
            quote \notin {"sglQuotes", "paramExpRepl", "paramExpExp"}
      [] r = chSquote -> quote \notin {"paramExpExp", "paramExpRepl"}
      [] r = chRbrace -> quote \in allParamExp
      [] r = chSlash -> quote \in allParamExp /\ quote # "paramExpExp"
      [] r = chRbrack -> quote \in allRbrack
      [] r \in {chExcl, chStar} -> quote \in allArithmExpr
      [] r \in {chColon, chEquals, chPercent, chQuest, chCaret, chComma} ->
            quote \in allArithmExpr \/ quote \in allParamReg
      [] r \in {chHash, chLbrack, chAt} -> quote \in allParamReg
      [] r \in {chPlus, chMinus} ->
            quote \notin {"paramExpInd", "paramExpLen", "paramExpOff",
                          "paramExpExp", "paramExpRepl", "sglQuotes"}
      [] r \in {chSpace, chTab, chSemi, chAmp, chGreater, chLess, chPipe,
                chLparen, chRparen, chCR} ->
            quote \notin {"paramExpExp", "paramExpRepl", "sglQuotes"}
      [] OTHER -> FALSE

\* the loop of advanceLitOther from its post statement r = p.rune() on
RECURSIVE litOtherLoop(_, _)
litOtherNext(q) == Only({ litOtherLoop(q1, q1.r) : q1 \in {rune(q)} })

\* mutant: a literal that ends at an expansion is classified as a word
litOtherLoopAllWords(q, r) ==
    IF r = RuneSelf THEN T(q, "_LitWord")
    ELSE IF r = chBackslash THEN
        Only({ IF q1.r = RuneSelf THEN T(q1, "_LitWord")
               ELSE IF q1.r = chNewline THEN litOtherNext(discardLit(q1, 2))
               ELSE litOtherNext(q1)
               : q1 \in { rune(q) } })
    ELSE IF r \in {chDquote, chBquote, chDollar} /\ q.quote # "sglQuotes"
    THEN T(q, "_LitWord")
    ELSE IF litOtherBreaks(q.quote, r) THEN T(q, "_LitWord")
    ELSE litOtherNext(q)

litOtherLoop(q, r) ==
    IF r = RuneSelf THEN T(q, "_LitWord")
    ELSE IF r = chBackslash THEN
        Only({ IF q1.r = RuneSelf THEN T(q1, "_LitWord")
               ELSE IF q1.r = chNewline THEN litOtherNext(discardLit(q1, 2))
               ELSE litOtherNext(q1)
               : q1 \in { rune(q) } })
    ELSE IF r \in {chDquote, chBquote, chDollar} /\ q.quote # "sglQuotes"
    THEN T(q, "_Lit")
    ELSE IF litOtherBreaks(q.quote, r) THEN T(q, "_LitWord")
    ELSE litOtherNext(q)

advanceLitOther(q, r) ==
    Only({ setLit(t.q, t.tok) : t \in {litOtherLoop(newLit(q, r), r)} })

\* the loop of advanceLitRe from its post statement r = p.rune() on
RECURSIVE litReLoop(_, _, _)
litReNext(q, lparens) ==
    Only({ litReLoop(q1, q1.r, lparens) : q1 \in {rune(q)} })

litReLoop(q, r, lparens) ==
    IF r = RuneSelf THEN q
    ELSE IF r = chLparen THEN litReNext(q, lparens + 1)
    ELSE IF r = chRparen THEN litReNext(q, lparens - 1)
    ELSE IF r \in {chSpace, chTab, chCR, chNewline} /\ lparens = 0 THEN q
    ELSE litReNext(q, lparens)

advanceLitRe(q, r) ==
    Only({ setLit(q1, "_LitWord") : q1 \in {litReLoop(newLit(q, r), r, 0)} })

(***************************************************************************)
(* Heredoc bodies.                                                         *)
(***************************************************************************)
\* for r == '\t' { r = p.rune() }
RECURSIVE skipTabs(_)
skipTabs(q) == IF q.r = chTab THEN Only({ skipTabs(x) : x \in {rune(q)} }) ELSE q

\* Go's a[i:j] of a byte slice
Slice(a, i, j) == SubSeq(a, i + 1, j)

\* p.discardLit(len(p.hdocStop)); p.hdocStop = nil
stopFound(q) ==
    [discardLit(q, Len(q.hdocStop)) EXCEPT !.hdocStopNil = TRUE,
                                           !.hdocStop = <<>>]

\* the loop of advanceLitHdoc from its post statement r = p.rune() on
RECURSIVE litHdocLoop(_, _, _)
litHdocNext(q, endOff) ==
    Only({ litHdocLoop(q1, q1.r, endOff) : q1 \in {rune(q)} })

\* the loop of advanceLitHdoc: the parser and endOff when it breaks
litHdocLoop(q, r, endOff) ==
    IF r \in {RuneSelf, chBquote, chDollar}
    THEN [q |-> q, endOff |-> endOff]
    ELSE IF r = chBackslash THEN
        Only({ IF q1.r = RuneSelf THEN [q |-> q1, endOff |-> endOff]
               ELSE litHdocNext(q1, endOff)
               : q1 \in { rune(q) } })
    ELSE IF r = chNewline THEN
        IF Slice(q.litBs, endOff, Len(q.litBs) - 1) = q.hdocStop
        THEN [q |-> stopFound(q), endOff |-> endOff]
        ELSE Only({ Only({ litHdocNext(q2, Len(q2.litBs) - 1)
                           : q2 \in { IF q.quote = "hdocBodyTabs" THEN skipTabs(q1) ELSE q1 } })
                    : q1 \in { rune(q) } })
    ELSE litHdocNext(q, endOff)

advanceLitHdoc(q, r) ==
    Only({ Only({ setLit(IF Slice(l.q.litBs, l.endOff, Len(l.q.litBs)) = l.q.hdocStop
                         THEN stopFound(l.q) ELSE l.q, "_Lit")
                  : l \in { litHdocLoop(q1, q1.r, Len(q1.litBs) - 1) } })
           : q1 \in { IF q.quote = "hdocBodyTabs" /\ r = chTab
                      THEN Only({ skipTabs(x) : x \in {newLit(q, r)} }) ELSE newLit(q, r) } })

\* for r != utf8.RuneSelf && r != '\n' { r = p.rune() }
RECURSIVE skipLine(_)
skipLine(q) ==
    IF q.r # RuneSelf /\ q.r # chNewline THEN Only({ skipLine(x)
                                                     : x \in { rune(q) } }) ELSE q

\* one line of the loop of hdocLitWord, the tabs skipped: q1 at the first
\* rune compared, q2 at the end of the line
RECURSIVE hdocLitLoop(_)
hdocLitLine(q1, q2) ==
    LET endOff == Len(q1.litBs) - 1 IN
    IF q2.r = RuneSelf
       /\ Slice(q2.litBs, endOff, Len(q2.litBs)) = q2.hdocStop
    THEN [q |-> discardLit(q2, Len(q2.hdocStop)), found |-> TRUE]
    ELSE IF Slice(q2.litBs, endOff, Len(q2.litBs) - 1) = q2.hdocStop
    THEN [q |-> discardLit(q2, Len(q2.hdocStop)), found |-> TRUE]
    ELSE Only({ hdocLitLoop(x) : x \in {rune(q2)} })

\* the loop of hdocLitWord: the parser when it is left, and whether it was
\* left by a break (the stop-word was found)
hdocLitLoop(q) ==
    IF q.r = RuneSelf THEN [q |-> q, found |-> FALSE]
    ELSE Only({ Only({ hdocLitLine(q1, q2) : q2 \in {skipLine(q1)} })
                : q1 \in { IF q.quote = "hdocBodyTabs" THEN skipTabs(q) ELSE q } })

\* hdocLitWord: the parser after the call, the Word returned (one Lit) and
\* whether the loop was left by a break
hdocLitWord(q) ==
    Only({ Only({ [ q |-> endLit(l.q).q, found |-> l.found,
                    word |-> << [type |-> "Lit", ValuePos |-> getPos(q0),
                                 Value |-> endLit(l.q).s] >> ]
                  : l \in { hdocLitLoop(q0) } })
           : q0 \in { newLit(q, q.r) } })

(***************************************************************************)
(* next(), nextKeepSpaces() and the heredoc deferral.                      *)
(***************************************************************************)
RECURSIVE next(_)

\* p.pos = p.getPos(), moved back to the first byte of a multi-byte rune
PosOf(x) == IF x < 0 THEN PosTop + x ELSE x

setPos(q) ==
    [q EXCEPT !.pos = PosOf(getPos(q)
                  - (IF q.r > RuneSelf THEN RuneLen(q.r) - 1 ELSE 0))]

nextKeepSpaces(q) ==
    LET r == q.r
        q0 == setPos(q)
    IN  CASE q.quote = "paramExpRepl" ->
                IF r \in {chRbrace, chSlash}
                THEN Only({ setTok(x) : x \in {paramToken(q0, r)} })
                ELSE IF r \in {chBquote, chDquote, chDollar}
                THEN Only({ setTok(x) : x \in {dqToken(q0, r)} })
                ELSE advanceLitOther(q0, r)
          [] q.quote = "dblQuotes" ->
                IF r \in {chBquote, chDquote, chDollar}
                THEN Only({ setTok(x) : x \in {dqToken(q0, r)} })
                ELSE advanceLitDquote(q0, r)
          [] q.quote \in {"hdocBody", "hdocBodyTabs"} ->
                IF r = chBquote \/ r = chDollar
                THEN Only({ setTok(x) : x \in {dqToken(q0, r)} })
                ELSE IF q.hdocStopNil THEN [q0 EXCEPT !.tok = "illegalTok"]
                ELSE advanceLitHdoc(q0, r)
          [] q.quote = "paramExpExp" ->
                IF r = chRbrace THEN [rune(q0) EXCEPT !.tok = "rightBrace"]
                ELSE IF r \in {chBquote, chDquote, chDollar}
                THEN Only({ setTok(x) : x \in {dqToken(q0, r)} })
                ELSE advanceLitOther(q0, r)
          [] OTHER ->   \* sglQuotes
                IF r = chSquote THEN [rune(q0) EXCEPT !.tok = "sglQuote"]
                ELSE advanceLitOther(q0, r)

\* The grammar driver reading "${name}": the runes up to and including the
\* closing brace are consumed, then next() is called in the restored mode.
RECURSIVE skipParamExp(_)
skipParamExp(q) ==
    IF q.r = RuneSelf THEN q
    ELSE IF q.r = chRbrace THEN rune(q)
    ELSE Only({ skipParamExp(x) : x \in {rune(q)} })

\* The grammar driver's word(): the parts of a word from the current token
\* on, one next() per part, until a token that starts no part.
RECURSIVE wordParts(_, _)
wordParts(q, parts) ==
    IF q.tok \in {"_Lit", "_LitWord"}
    THEN Only({ wordParts(q1, Append(parts,
                    [type |-> "Lit", ValuePos |-> q.pos, Value |-> q.val]))
                : q1 \in { next(q) } })
    ELSE IF q.tok = "dollBrace"
    THEN Only({ Only({ wordParts(q2, Append(parts,
                           [type |-> "ParamExp", ValuePos |-> q.pos, Value |-> <<>>]))
                       : q2 \in { next(q1) } })
                : q1 \in { skipParamExp(q) } })
    ELSE [q |-> q, word |-> parts]

\* p.next(); r.Hdoc = p.word()
hdocWord(q) == Only({ wordParts(q1, <<>>) : q1 \in {next(q)} })

\* One pending heredoc of doHeredocs: the body of h is read in its mode,
\* with the quoted reader when its stop-word was quoted.
hdocBodyOf(q, h, i) ==
    Only({ Only({ Only({ [w.q EXCEPT !.bodies = Append(@, [id |-> h.id, OpPos |-> h.OpPos,
                                                           at |-> getPos(q2),
                                                           word |-> w.word])]
                         : w \in { IF h.quoted THEN hdocLitWord(q2) ELSE hdocWord(q2) } })
                  : q2 \in { IF i > 0 /\ q1.r = chNewline THEN rune(q1) ELSE q1 } })
           : q1 \in { [q EXCEPT !.quote = IF h.op = "dashHdoc" THEN "hdocBodyTabs"
                                          ELSE "hdocBody",
                                !.hdocStop = h.stop, !.hdocStopNil = FALSE] } })

RECURSIVE doHdocList(_, _, _)
doHdocList(q, hdocs, i) ==
    IF hdocs = <<>> THEN q
    ELSE Only({ doHdocList(q1, Tail(hdocs), i + 1)
                : q1 \in { hdocBodyOf(q, Head(hdocs), i) } })

doHeredocs(q) ==
    LET old == q.quote
        hdocs == SubSeq(q.heredocs, q.buriedHdocs + 1, Len(q.heredocs))
        q1 == [q EXCEPT !.heredocs = SubSeq(@, 1, q.buriedHdocs)]
    IN  [doHdocList(q1, hdocs, 0) EXCEPT !.quote = old]

RECURSIVE skipSpace(_)
\* mutant: the pending heredocs are left for later
skipNewlineDefers(q1) == skipSpace(q1)

\* the '\n' case of the skipSpace loop once the newline is consumed
skipNewline(q1) ==
    IF Len(q1.heredocs) > q1.buriedHdocs /\ q1.err = "nil"
    THEN Only({ IF q2.tok = "_EOF" THEN [q |-> q2, ret |-> TRUE]
                ELSE skipSpace(q2)
                : q2 \in { doHeredocs(q1) } })
    ELSE skipSpace(q1)

\* the skipSpace loop of next(): the parser when the loop is left, and
\* whether next() returns there
skipSpace(q) ==
    LET r == q.r IN
    IF r = RuneSelf THEN [q |-> [q EXCEPT !.tok = "_EOF"], ret |-> TRUE]
    ELSE IF r \in {chSpace, chTab, chCR}
    THEN Only({ skipSpace(x) : x \in {rune([q EXCEPT !.spaced = TRUE])} })
    ELSE IF r = chNewline THEN
        IF q.quote = "arithmExprLet" \/ q.quote = "hdocWord"
        THEN [q |-> [q EXCEPT !.tok = "illegalTok"], ret |-> TRUE]
        ELSE Only({ skipNewline(x)
                    : x \in { rune([q EXCEPT !.spaced = TRUE, !.newLine = TRUE]) } })
    ELSE IF r = chBackslash THEN
        Only({ IF ~pk.ok THEN [q |-> pk.q, ret |-> FALSE]
               ELSE Only({ Only({ skipSpace(x)
                                  : x \in { rune(q1) } })
                           : q1 \in { rune(pk.q) } })
               : pk \in { peekByte(q, chNewline) } })
    ELSE [q |-> q, ret |-> FALSE]

\* the comment branch of next(), up to its call of next()
commentOf(q) ==
    Only({ Only({ IF q2.parseComments
                  THEN [q2 EXCEPT !.litNil = TRUE, !.litBs = <<>>,
                                  !.Comments = Append(@, [Hash |-> q.pos,
                                                          Text |-> endLit(q2).s])]
                  ELSE [q2 EXCEPT !.litNil = TRUE, !.litBs = <<>>]
                  : q2 \in { skipLine(newLit(q1, q1.r)) } })
           : q1 \in { rune(q) } })

\* case '?', '*', '+', '@', '!' of next(): an extended glob operator when
\* a parenthesis follows
globToken(q, r) ==
    Only({ IF pk.ok
           THEN Only({ [rune(q1) EXCEPT !.tok =
                           CASE r = chQuest -> "globQuest"
                             [] r = chStar -> "globStar"
                             [] r = chPlus -> "globPlus"
                             [] r = chAt -> "globAt"
                             [] OTHER -> "globExcl"]
                       : q1 \in { rune(pk.q) } })
           ELSE advanceLitNone(pk.q, r)
           : pk \in { peekByte(q, chLparen) } })

\* the token switch of next() in the regular-token modes
regModeToken(q, r) ==
    IF r \in {chSemi, chDquote, chSquote, chLparen, chRparen, chDollar,
              chPipe, chAmp, chGreater, chLess, chBquote}
    THEN Only({ setTok(x) : x \in {regToken(q, r)} })
    ELSE IF r = chHash THEN Only({ next(x) : x \in {commentOf(q)} })
    ELSE IF r \in {chQuest, chStar, chPlus, chAt, chExcl} THEN globToken(q, r)
    ELSE advanceLitNone(q, r)

\* next() from the end of its skipSpace loop on
nextToken(q) ==
    Only({ Only({ IF q2.err # "nil" /\ q2.tok # "_EOF"
                  THEN [q2 EXCEPT !.tok = "_EOF"]
                  ELSE q2
                  : q2 \in { IF q1.quote \in allRegTokens THEN regModeToken(q1, q1.r)
                             ELSE IF q1.quote \in allArithmExpr /\ arithmOps(q1.r)
                             THEN Only({ setTok(x) : x \in {arithmToken(q1, q1.r)} })
                             ELSE IF q1.quote \in allParamExp /\ paramOps(q1.r)
                             THEN Only({ setTok(x) : x \in {paramToken(q1, q1.r)} })
                             ELSE IF q1.quote = "testRegexp"
                             THEN IF regOps(q1.r) /\ q1.r # chLparen
                                  THEN Only({ setTok(x) : x \in {regToken(q1, q1.r)} })
                                  ELSE advanceLitRe(q1, q1.r)
                             ELSE IF regOps(q1.r) THEN Only({ setTok(x)
                                                              : x \in { regToken(q1, q1.r) } })
                             ELSE advanceLitOther(q1, q1.r) } })
           : q1 \in { setPos(q) } })

next(q) ==
    IF q.r = RuneSelf THEN [q EXCEPT !.tok = "_EOF"]
    ELSE IF q.quote \in allKeepSpaces
    THEN nextKeepSpaces([q EXCEPT !.spaced = FALSE, !.newLine = FALSE])
    ELSE Only({ IF s.ret THEN s.q ELSE nextToken(s.q)
                : s \in { skipSpace([q EXCEPT !.spaced = FALSE, !.newLine = FALSE]) } })
(***************************************************************************)
(* The operators of the test clause.                                       *)
(***************************************************************************)
\* mutant: the alias "-h" is missing
testUnaryOpNoAlias(val) ==
    CASE val = "!" -> "exclMark"
      [] val \in {"-e", "-a"} -> "tsExists"
      [] val = "-f" -> "tsRegFile"
      [] val = "-d" -> "tsDirect"
      [] val = "-c" -> "tsCharSp"
      [] val = "-b" -> "tsBlckSp"
      [] val = "-p" -> "tsNmPipe"
      [] val = "-S" -> "tsSocket"
      [] val \in {"-L"} -> "tsSmbLink"
      [] val = "-g" -> "tsGIDSet"
      [] val = "-u" -> "tsUIDSet"
      [] val = "-r" -> "tsRead"
      [] val = "-w" -> "tsWrite"
      [] val = "-x" -> "tsExec"
      [] val = "-s" -> "tsNoEmpty"
      [] val = "-t" -> "tsFdTerm"
      [] val = "-z" -> "tsEmpStr"
      [] val = "-n" -> "tsNempStr"
      [] val = "-o" -> "tsOptSet"
      [] val = "-v" -> "tsVarSet"
      [] val = "-R" -> "tsRefVar"
      [] OTHER -> "illegalTok"

testUnaryOp(val) ==
    CASE val = "!" -> "exclMark"
      [] val \in {"-e", "-a"} -> "tsExists"
      [] val = "-f" -> "tsRegFile"
      [] val = "-d" -> "tsDirect"
      [] val = "-c" -> "tsCharSp"
      [] val = "-b" -> "tsBlckSp"
      [] val = "-p" -> "tsNmPipe"
      [] val = "-S" -> "tsSocket"
      [] val \in {"-L", "-h"} -> "tsSmbLink"
      [] val = "-g" -> "tsGIDSet"
      [] val = "-u" -> "tsUIDSet"
      [] val = "-r" -> "tsRead"
      [] val = "-w" -> "tsWrite"
      [] val = "-x" -> "tsExec"
      [] val = "-s" -> "tsNoEmpty"
      [] val = "-t" -> "tsFdTerm"
      [] val = "-z" -> "tsEmpStr"
      [] val = "-n" -> "tsNempStr"
      [] val = "-o" -> "tsOptSet"
      [] val = "-v" -> "tsVarSet"
      [] val = "-R" -> "tsRefVar"
      [] OTHER -> "illegalTok"

testBinaryOp(val) ==
    CASE val = "=" -> "assgn"
      [] val = "==" -> "equal"
      [] val = "!=" -> "nequal"
      [] val = "=~" -> "tsReMatch"
      [] val = "-nt" -> "tsNewer"
      [] val = "-ot" -> "tsOlder"
      [] val = "-ef" -> "tsDevIno"
      [] val = "-eq" -> "tsEql"
      [] val = "-ne" -> "tsNeq"
      [] val = "-le" -> "tsLeq"
      [] val = "-ge" -> "tsGeq"
      [] val = "-lt" -> "tsLss"
      [] val = "-gt" -> "tsGtr"
      [] OTHER -> "illegalTok"

(***************************************************************************)
(* Position specification: a reader over a short input, and rune(),        *)
(* peekByte() and File.Position() called in any order.                     *)
(***************************************************************************)
NoRes == [op |-> "none"]
NoAst == [on |-> FALSE]

PosChars == { <<chLowerA>>, <<chNewline>>, <<195, 169>> }

RECURSIVE Texts(_, _)
Texts(chars, n) ==
    IF n = 0 THEN { <<>> }
    ELSE LET shorter == Texts(chars, n - 1) IN
         shorter \cup { t \o c : t \in shorter, c \in chars }

PosInit ==
    /\ input \in Texts(PosChars, MaxRunes)
    /\ \E chunk \in 1..MaxChunk :
           p = NewParser(input, chunk, TRUE, FALSE, "noState")
    /\ res = NoRes
    /\ ast = NoAst

RuneStep ==
    /\ p' = rune(p)
    /\ res' = [op |-> "rune", prev |-> p.r, val |-> p'.r,
               at |-> getPos(p) + 1, err |-> p.err, src |-> p.src]
    /\ UNCHANGED <<input, ast>>

\* the runes that n calls of rune() return
RECURSIVE Runes(_, _)
Runes(q, n) ==
    IF n = 0 THEN <<>>
    ELSE Only({ <<q1.r>> \o Runes(q1, n - 1) : q1 \in {rune(q)} })

\* peekByte(b); pre: the parser before the call, runes: what the calls of
\* rune() made after it return, plain: what they return without it
PeekStep ==
    /\ \E b \in {chLowerA, chNewline} :
           \E pk \in {peekByte(p, b)} :
           /\ p' = pk.q
           /\ res' = [op |-> "peekByte", arg |-> b, val |-> pk.ok,
                      pre |-> p, runes |-> Runes(pk.q, MaxRunes + 1),
                      plain |-> Runes(p, MaxRunes + 1)]
    /\ UNCHANGED <<input, ast>>

\* File.Position(x) for a position the source has passed
ResolveStep ==
    /\ \E x \in 1..Len(input) :
           /\ x <= getPos(p)
           /\ res' = [op |-> "Position", arg |-> x,
                      idx |-> searchPos(p.lines, x),
                      val |-> Position(p.lines, x)]
    /\ UNCHANGED <<p, input, ast>>

PosNext == RuneStep \/ PeekStep \/ ResolveStep

SpecPos == PosInit /\ [][PosNext]_vars

\* the newline bytes of the input before position x, and the position of
\* the last of them (0 when x is on the first line)
NewlinesBefore(x) == { k \in 1..(x - 1) : input[k] = chNewline }
LineStart(x) ==
    IF NewlinesBefore(x) = {} THEN 0
    ELSE CHOOSE k \in NewlinesBefore(x) : \A j \in NewlinesBefore(x) : j <= k

\* C3: File.Position(x) of a non-newline character is line 1 + (newlines
\* before it), column 1 + (bytes between the start of its line and it) and
\* offset x - 1, and searchPos returned the greatest index whose recorded
\* position is <= x.
C3_PositionOfCharacter ==
    (res.op = "Position" /\ input[res.arg] # chNewline) =>
        /\ res.val = [ Offset |-> res.arg - 1,
                       Line |-> 1 + Cardinality(NewlinesBefore(res.arg)),
                       Column |-> 1 + (res.arg - LineStart(res.arg) - 1) ]
        /\ res.idx \in 0..(Len(p.lines) - 1)
        /\ p.lines[res.idx + 1] <= res.arg
        /\ \A j \in (res.idx + 1)..(Len(p.lines) - 1) : p.lines[j + 1] > res.arg

\* the whole input "a\na" was consumed and its last character resolved
C3_Witness ==
    /\ res.op = "Position"
    /\ input = <<chLowerA, chNewline, chLowerA>>
    /\ p.r = RuneSelf
    /\ res.arg = 3
    /\ res.val = [Offset |-> 2, Line |-> 2, Column |-> 1]

\* the positions rune() recorded for newline bytes: every entry of the
\* index after the first, which Parse puts there for line 1
RecordedNewlines == { p.lines[k] : k \in 2..Len(p.lines) }

\* C4: a position before the first recorded newline, and every position
\* when no newline was recorded, resolves to line 1.
C4_BeforeFirstNewlineIsLine1 ==
    (res.op = "Position" /\ \A n \in RecordedNewlines : res.arg < n) =>
        res.val.Line = 1

C4_Witness ==
    /\ res.op = "Position"
    /\ RecordedNewlines # {}
    /\ \A n \in RecordedNewlines : res.arg < n
    /\ res.val.Line = 1

\* C28: File.Position(x) of every position of the input, the position of
\* a newline byte included, has an offset >= 0, a line >= 1 and a
\* column >= 1.
C28_PositionInRange ==
    res.op = "Position" =>
        /\ res.val.Offset >= 0
        /\ res.val.Line >= 1
        /\ res.val.Column >= 1

(***************************************************************************)
(* Reader specification: rune() and peekByte() over a reader that ends     *)
(* with io.EOF or with another error, returned with the last bytes or by   *)
(* a Read of its own, over inputs with bytes that are no UTF-8 encoding.   *)
(***************************************************************************)
\* a letter, the two bytes of U+00E9 taken apart, and a byte that occurs
\* in no encoding
IOBytes == { <<chLowerA>>, <<195>>, <<169>>, <<255>> }

IOInit ==
    /\ input \in Texts(IOBytes, MaxRunes)
    /\ \E chunk \in 1..MaxChunk, end \in {"EOF", "ioErr"}, late \in BOOLEAN :
           p = [NewParser(input, chunk, TRUE, FALSE, "noState")
                    EXCEPT !.src.end = end, !.src.late = late]
    /\ res = NoRes
    /\ ast = NoAst

IONext == RuneStep \/ PeekStep

SpecIO == IOInit /\ [][IONext]_vars

\* the bytes of the input from position k on start with no UTF-8 encoding
InvalidAt(k) ==
    /\ k <= Len(input)
    /\ DecodeRune(SubSeq(input, k, Len(input))) = [r |-> RuneError, w |-> 1]

C20_ReadErrorStored ==
    /\ ~p.src.over
    /\ p.src.end = "EOF" => p.err \in {"nil", "invalid UTF-8 encoding"}
    /\ (p.src.end # "EOF" /\ p.r = RuneSelf) =>
           /\ p.err = p.src.end
           /\ getPos(p) = Len(input) + 1

\* the error came with the last two bytes, which were delivered first
C20_Witness ==
    /\ res.op = "rune"
    /\ input = <<chLowerA, chLowerA>>
    /\ p.src.end = "ioErr"
    /\ p.src.late
    /\ p.src.chunk = 2
    /\ res.prev = chLowerA
    /\ p.r = RuneSelf
    /\ p.err = "ioErr"

(***************************************************************************)
(* Rune specification: rune(), unrune() and peekByte() called in any order *)
(* over inputs with multi-byte runes, read one or two bytes per Read.      *)
(***************************************************************************)
\* a letter, a newline, U+0080, U+20AC and a byte that occurs in no encoding
RuneChars ==
    { <<chLowerA>>, <<chNewline>>, <<194, 128>>, <<226, 130, 172>>, <<255>> }

MaxIndex == 5      \* entries of the position index

RuneInit ==
    /\ input \in Texts(RuneChars, MaxRunes)
    /\ \E chunk \in 1..MaxChunk :
           p = NewParser(input, chunk, TRUE, FALSE, "noState")
    /\ res = NoRes
    /\ ast = NoAst

\* unrune(r) right after a call of rune(), with the rune that was current
\* before that call; again: what the next rune() would return (p.bs[p.npos]
\* with a negative index ends the program)
UnruneStep ==
    /\ res.op = "rune"
    /\ Len(p.lines) < MaxIndex
    /\ \E u \in {unrune(p, res.prev)} :
           /\ p' = u
           /\ res' = [op |-> "unrune", r |-> p.r, prev |-> res.prev,
                      at |-> res.at, same |-> (u = p),
                      again |-> IF u.npos < 0 THEN -1 ELSE rune(u).r]
    /\ UNCHANGED <<input, ast>>

\* after an unrune() that left p.npos negative no call returns
RuneNext == (p.npos >= 0 /\ (RuneStep \/ PeekStep)) \/ UnruneStep

SpecRune == RuneInit /\ [][RuneNext]_vars

\* C21: unrune(q) after rune() returned r, a rune other than the end of
\* input, with q the rune current before: the read offset is the one before
\* r was read, the current rune is q and the next rune() returns r again.
\* At the end of input unrune changes nothing.
C21_UnruneUnreadsOneRune ==
    res.op = "unrune" =>
        IF res.r = RuneSelf
        THEN res.same
        ELSE /\ getPos(p) = res.at - 1
             /\ p.r = res.prev
             /\ res.again = res.r

RECURSIVE ValidFrom(_)
ValidFrom(k) ==
    IF k > Len(input) THEN TRUE
    ELSE Only({ ~(d.r = RuneError /\ d.w = 1) /\ ValidFrom(k + d.w)
                : d \in { DecodeRune(SubSeq(input, k, Len(input))) } })

\* the code point the input holds at position k, RuneSelf past its end
RuneAt(k) ==
    IF k > Len(input) THEN RuneSelf
    ELSE DecodeRune(SubSeq(input, k, Len(input))).r

\* C29: what rune() returns depends on the input bytes alone, however the
\* reader splits them: the code point decoded at the read offset, the end
\* of input rune once the input is used up, and for an input that is
\* valid UTF-8 no encoding error.
C29_RunesIndependentOfChunking ==
    res.op = "rune" =>
        /\ p.r = RuneAt(res.at)
        /\ ValidFrom(1) => p.err = "nil"

\* C30: rune() sets the current rune to utf8.RuneSelf only when every byte
\* of the input has been consumed, and once it has done so at the end of
\* the input every later rune() returns RuneSelf again and reads nothing.
C30_SentinelOnlyAtEnd ==
    res.op = "rune" =>
        /\ p.r = RuneSelf => getPos(p) >= Len(input)
        /\ (res.prev = RuneSelf /\ res.at > Len(input)) =>
               (p.r = RuneSelf /\ p.src = res.src)

\* the positions of the newline bytes of the input consumed so far
NewlinesRead ==
    { k \in 1..Len(input) : k <= getPos(p) /\ input[k] = chNewline }

\* C32: after calls of rune() and unrune() the entries that rune() appended
\* to the position index are strictly increasing and are the positions of
\* the newline bytes consumed so far, one entry each.
C32_OneIndexEntryPerNewline ==
    res.op \in {"rune", "unrune"} =>
        /\ \A k \in 2..(Len(p.lines) - 1) : p.lines[k] < p.lines[k + 1]
        /\ RecordedNewlines = NewlinesRead

(***************************************************************************)
(* Test operator specification: testUnaryOp and testBinaryOp applied to    *)
(* the spellings of the operators and to words that spell none.            *)
(***************************************************************************)
Letters ==
    { "a", "b", "c", "d", "e", "f", "g", "h", "k", "l", "n", "o", "p", "q",
      "r", "s", "t", "u", "v", "w", "x", "z", "G", "L", "N", "O", "R", "S" }

\* "-" and one or two letters, the words of "=", "!" and "~", and some
\* words that only start or end like an operator
TestWords ==
    { "-" \o a : a \in Letters }
        \cup { "-" \o a \o b : a \in {"n", "o", "e", "l", "g"},
                               b \in {"t", "f", "q", "e"} }
        \cup { "", "-", "!", "=", "==", "!=", "=~", "===", "~=", "!!", "e",
               "--e", "-e ", "-nte", "<", ">" }

TestInit ==
    /\ input \in TestWords
    /\ p = NewParser(<<>>, MaxChunk, TRUE, FALSE, "noState")
    /\ res = NoRes
    /\ ast = NoAst

TestUnaryStep ==
    /\ res' = [op |-> "testUnaryOp", tok |-> testUnaryOp(input)]
    /\ UNCHANGED <<p, input, ast>>

TestBinaryStep ==
    /\ res' = [op |-> "testBinaryOp", tok |-> testBinaryOp(input)]
    /\ UNCHANGED <<p, input, ast>>

TestNext == TestUnaryStep \/ TestBinaryStep

SpecTest == TestInit /\ [][TestNext]_vars

UnarySpellings ==
    { "!", "-e", "-a", "-f", "-d", "-c", "-b", "-p", "-S", "-L", "-h", "-g",
      "-u", "-r", "-w", "-x", "-s", "-t", "-z", "-n", "-o", "-v", "-R" }

BinarySpellings ==
    { "=", "==", "!=", "=~", "-nt", "-ot", "-ef", "-eq", "-ne", "-le", "-ge",
      "-lt", "-gt" }

\* two spellings that are not aliases of each other
Unrelated(a, b) ==
    a # b /\ {a, b} # {"-e", "-a"} /\ {a, b} # {"-L", "-h"}

\* C23: each function returns illegalTok exactly for the words that are
\* not in its table, and sets no error; "-e" and "-a" give one token, "-L"
\* and "-h" give one token, and any other two spellings of a table give
\* two different tokens.
C23_TestOpsOrIllegal ==
    /\ p.err = "nil"
    /\ res.op = "testUnaryOp" =>
           /\ (res.tok = "illegalTok") <=> (input \notin UnarySpellings)
           /\ input \in {"-e", "-a"} => res.tok = testUnaryOp("-e")
           /\ input \in {"-L", "-h"} => res.tok = testUnaryOp("-L")
           /\ \A w \in UnarySpellings :
                  Unrelated(w, input) => testUnaryOp(w) # res.tok
    /\ res.op = "testBinaryOp" =>
           /\ (res.tok = "illegalTok") <=> (input \notin BinarySpellings)
           /\ \A w \in BinarySpellings :
                  w # input => testBinaryOp(w) # res.tok

\* the alias "-h" gives the token of "-L"
C23_Witness ==
    /\ res.op = "testUnaryOp"
    /\ input = "-h"
    /\ res.tok = "tsSmbLink"

(***************************************************************************)
(* Heredoc body specification: the parser as doHeredocs has set it for one *)
(* pending heredoc (mode, stop-word, current rune = first rune of the      *)
(* body), and the body read by the reader of a quoted or an unquoted       *)
(* stop-word.                                                              *)
(***************************************************************************)
MaxLines == 3      \* lines of a heredoc body

StopWord == <<chUpperE, chUpperO>>

\* the lines a body is made of: plain text, the empty line, the stop-word,
\* the stop-word and one more character, both after a tab, a line with a
\* parameter expansion before the stop-word, an escaped character
HdocLines ==
    { <<chLowerA>>, <<>>, StopWord, StopWord \o <<chLowerA>>,
      <<chTab>> \o StopWord, <<chTab, chLowerA>>,
      <<chDollar, chLbrace, chLowerA, chRbrace>> \o StopWord,
      <<chBackslash, chLowerA>> }

RECURSIVE BodiesOf(_)
BodiesOf(n) ==
    IF n = 0 THEN { <<>> }
    ELSE LET shorter == BodiesOf(n - 1) IN
         shorter \cup { t \o l \o <<chNewline>> : t \in shorter, l \in HdocLines }

\* every body of at most MaxLines lines, the last line with or without
\* its newline
HdocTexts ==
    BodiesOf(MaxLines) \cup
    { t \o l : t \in BodiesOf(MaxLines - 1), l \in HdocLines }

HdocInit ==
    /\ input \in HdocTexts
    /\ \E chunk \in 1..MaxChunk, mode \in {"hdocBody", "hdocBodyTabs"} :
           p = rune([NewParser(input, chunk, TRUE, FALSE, mode)
                        EXCEPT !.hdocStop = StopWord, !.hdocStopNil = FALSE])
    /\ res = NoRes
    /\ ast = NoAst

RECURSIVE Concat(_)
Concat(parts) ==
    IF parts = <<>> THEN <<>> ELSE Head(parts).Value \o Concat(Tail(parts))

\* r.Hdoc = p.hdocLitWord(), the stop-word having been quoted
HdocQuotedStep ==
    /\ res.op = "none"
    /\ \E w \in {hdocLitWord(p)} :
       /\ p' = w.q
       /\ res' = [op |-> "hdocLitWord", word |-> w.word,
                  body |-> Concat(w.word), ended |-> w.found, pre |-> p]
    /\ UNCHANGED <<input, ast>>

\* p.next(); r.Hdoc = p.word(), the stop-word having been unquoted
HdocUnquotedStep ==
    /\ res.op = "none"
    /\ \E w \in {hdocWord(p)} :
       /\ p' = w.q
       /\ res' = [op |-> "advanceLitHdoc", word |-> w.word,
                  body |-> Concat(w.word), ended |-> w.q.hdocStopNil,
                  pre |-> p]
    /\ UNCHANGED <<input, ast>>

HdocNext == HdocQuotedStep \/ HdocUnquotedStep

SpecHdoc == HdocInit /\ [][HdocNext]_vars

\* The lines of the body: a line is named by the offset of its first byte.
LineStarts ==
    { s \in 0..(Len(input) - 1) : s = 0 \/ input[s] = chNewline }
\* the position of the newline that ends the line at s, or one past the
\* input when the line is the last and has none
LineEnd(s) ==
    LET nls == { k \in (s + 1)..Len(input) : input[k] = chNewline } IN
    IF nls = {} THEN Len(input) + 1
    ELSE CHOOSE k \in nls : \A j \in nls : k <= j
LineText(s) == SubSeq(input, s + 1, LineEnd(s) - 1)

RECURSIVE StripTabs(_)
StripTabs(l) ==
    IF l # <<>> /\ Head(l) = chTab THEN StripTabs(Tail(l)) ELSE l

\* the lines that end the heredoc in the mode of the parser
IsStopLine(s) ==
    IF p.quote = "hdocBodyTabs" THEN StripTabs(LineText(s)) = StopWord
    ELSE LineText(s) = StopWord
StopLines == { s \in LineStarts : IsStopLine(s) }
FirstStopLine == CHOOSE s \in StopLines : \A t \in StopLines : s <= t

\* no line before s holds an expansion or an escape
PlainBefore(s) ==
    \A k \in 1..s : input[k] \notin {chDollar, chBquote, chBackslash}

HdocRead == res.op \in {"hdocLitWord", "advanceLitHdoc"}

\* C5: when the body is plain lines followed by a line equal to the
\* stop-word, the body literal is exactly the text of the lines before that
\* line, and the lexer is left at the end of the stop-word line.
C5_BodyIsTextBeforeStopLine ==
    (/\ HdocRead
     /\ StopLines # {}
     /\ LineText(FirstStopLine) = StopWord
     /\ PlainBefore(FirstStopLine))
    => /\ res.body = SubSeq(input, 1, FirstStopLine)
       /\ getPos(p) = LineEnd(FirstStopLine)

\* C6: with an unquoted stop-word the body ends at the first line that
\* equals the stop-word, whatever the lines before it are: hdocStop is
\* cleared and the lexer is left at the end of that line.
C6_EndsAtFirstStopLine ==
    (/\ res.op = "advanceLitHdoc"
     /\ StopLines # {}
     /\ LineText(FirstStopLine) = StopWord)
    => /\ res.ended
       /\ getPos(p) = LineEnd(FirstStopLine)

\* C7: the heredoc is ended only at a line whose whole content is the
\* stop-word.
C7_EndsOnlyOnExactMatch ==
    (HdocRead /\ res.ended) =>
        \E s \in StopLines : getPos(p) = LineEnd(s)

\* the first byte of no line of the text is a tab
NoLeadingTabs(text) ==
    \A k \in 1..Len(text) :
        (k = 1 \/ text[k - 1] = chNewline) => text[k] # chTab

\* C8: in hdocBodyTabs mode a line of tabs followed by the stop-word ends
\* the heredoc, in hdocBody mode it does not, and the leading tabs are not
\* part of the body literal.
C8_TabsStrippedFromBody ==
    HdocRead =>
        /\ (p.quote = "hdocBodyTabs" /\ StopLines # {})
               => (res.ended /\ getPos(p) = LineEnd(FirstStopLine))
        /\ (p.quote = "hdocBody" /\ res.ended)
               => \E s \in LineStarts :
                      getPos(p) = LineEnd(s) /\ Head(LineText(s)) # chTab
        /\ (p.quote = "hdocBodyTabs") => NoLeadingTabs(res.body)

\* the body that each of the two readers returns for the parser q, and
\* where it leaves the lexer
QuotedRead(q) ==
    Only({ [body |-> Concat(w.word), at |-> getPos(w.q)]
           : w \in { hdocLitWord(q) } })
UnquotedRead(q) ==
    Only({ [body |-> Concat(w.word), at |-> getPos(w.q)]
           : w \in { hdocWord(q) } })

\* C33: for a body without `$`, backquote and backslash the reader of a
\* quoted stop-word and the reader of an unquoted one return the same body
\* and stop at the same place, in both modes.
C33_HdocReadersAgree ==
    (HdocRead /\ PlainBefore(Len(input))) =>
        QuotedRead(res.pre) = UnquotedRead(res.pre)

(***************************************************************************)
(* Operator specification: regToken and dqToken applied at the first rune  *)
(* of a run of operator characters, in Bash and in POSIX mode.             *)
(***************************************************************************)
MaxOpRunes == 3    \* characters of the run

OpChars ==
    { <<chAmp>>, <<chPipe>>, <<chSemi>>, <<chLess>>, <<chGreater>>,
      <<chLparen>>, <<chDollar>>, <<chSquote>>, <<chDquote>>, <<chLbrack>>,
      <<chMinus>>, <<chRparen>>, <<chBquote>>, <<chLbrace>> }

TokInit ==
    /\ input \in Texts(OpChars, MaxOpRunes)
    /\ \E chunk \in 1..MaxChunk, bashMode \in BOOLEAN :
           p = rune(NewParser(input, chunk, bashMode, FALSE, "noState"))
    /\ res = NoRes
    /\ ast = NoAst

\* p.tok = p.regToken(r), at a rune for which next() calls it
RegTokenStep ==
    /\ res.op = "none"
    /\ p.r \in {chSemi, chDquote, chSquote, chLparen, chRparen, chDollar,
                chPipe, chAmp, chGreater, chLess, chBquote}
    /\ \E t \in {regToken(p, p.r)} :
           /\ p' = setTok(t)
           /\ res' = [op |-> "regToken", tok |-> t.tok]
    /\ UNCHANGED <<input, ast>>

\* p.tok = p.dqToken(r), at a rune for which nextKeepSpaces() calls it
DqTokenStep ==
    /\ res.op = "none"
    /\ p.r \in {chBquote, chDquote, chDollar}
    /\ \E t \in {dqToken(p, p.r)} :
           /\ p' = setTok(t)
           /\ res' = [op |-> "dqToken", tok |-> t.tok]
    /\ UNCHANGED <<input, ast>>

TokNext == RegTokenStep \/ DqTokenStep

SpecTok == TokInit /\ [][TokNext]_vars

BashOnlyTokens ==
    {"wordHdoc", "pipeAll", "dblSemiFall", "semiFall", "rdrAll", "appAll",
     "dollSglQuote", "dollDblQuote", "dollBrack", "dblLeftParen", "cmdIn",
     "cmdOut"}

\* the spelling of the operators a POSIX script can hold
PosixSpelling ==
    [ sglQuote |-> <<chSquote>>, dblQuote |-> <<chDquote>>,
      bckQuote |-> <<chBquote>>,
      and |-> <<chAmp>>, andAnd |-> <<chAmp, chAmp>>,
      or |-> <<chPipe>>, orOr |-> <<chPipe, chPipe>>,
      dollar |-> <<chDollar>>, dollBrace |-> <<chDollar, chLbrace>>,
      dollParen |-> <<chDollar, chLparen>>,
      dollDblParen |-> <<chDollar, chLparen, chLparen>>,
      leftParen |-> <<chLparen>>, rightParen |-> <<chRparen>>,
      semicolon |-> <<chSemi>>, dblSemicolon |-> <<chSemi, chSemi>>,
      rdrIn |-> <<chLess>>, hdoc |-> <<chLess, chLess>>,
      dashHdoc |-> <<chLess, chLess, chMinus>>,
      rdrInOut |-> <<chLess, chGreater>>, dplIn |-> <<chLess, chAmp>>,
      rdrOut |-> <<chGreater>>, appOut |-> <<chGreater, chGreater>>,
      dplOut |-> <<chGreater, chAmp>>, clbOut |-> <<chGreater, chPipe>> ]

\* C10: in POSIX mode regToken and dqToken never return a Bash-only
\* operator: the token returned is a POSIX operator whose spelling starts
\* the input, and the current rune is the first character after it.
C10_PosixNeverBashOnly ==
    (res.op \in {"regToken", "dqToken"} /\ ~p.bash) =>
        /\ res.tok \notin BashOnlyTokens
        /\ res.tok \in DOMAIN PosixSpelling
        /\ LET op == PosixSpelling[res.tok] IN
           /\ Len(op) <= Len(input)
           /\ SubSeq(input, 1, Len(op)) = op
           /\ p.r = IF Len(op) < Len(input) THEN input[Len(op) + 1]
                     ELSE RuneSelf
           /\ p.tok = res.tok

\* "<<<" in POSIX mode is the heredoc operator "<<", the third "<" is left
C10_Witness ==
    /\ res.op = "regToken"
    /\ ~p.bash
    /\ input = <<chLess, chLess, chLess>>
    /\ res.tok = "hdoc"
    /\ p.r = chLess

\* the spelling of the operators only a Bash script can hold
BashOnlySpelling ==
    [ wordHdoc |-> <<chLess, chLess, chLess>>, pipeAll |-> <<chPipe, chAmp>>,
      dblSemiFall |-> <<chSemi, chSemi, chAmp>>,
      semiFall |-> <<chSemi, chAmp>>, rdrAll |-> <<chAmp, chGreater>>,
      appAll |-> <<chAmp, chGreater, chGreater>>,
      dollSglQuote |-> <<chDollar, chSquote>>,
      dollDblQuote |-> <<chDollar, chDquote>>,
      dollBrack |-> <<chDollar, chLbrack>>,
      dblLeftParen |-> <<chLparen, chLparen>>,
      cmdIn |-> <<chLess, chLparen>>, cmdOut |-> <<chGreater, chLparen>> ]

Spelling(tok) ==
    IF tok \in DOMAIN PosixSpelling THEN PosixSpelling[tok]
    ELSE BashOnlySpelling[tok]

\* the operator tokens of the conformance mode of the parser
AllowedTokens ==
    DOMAIN PosixSpelling
        \cup (IF p.bash THEN DOMAIN BashOnlySpelling ELSE {})

IsPrefix(op, text) ==
    Len(op) <= Len(text) /\ SubSeq(text, 1, Len(op)) = op

\* the rune a tokenizer leaves as current after an operator of length n
\* at the start of the text
RuneAfter(text, n) == IF n < Len(text) THEN text[n + 1] ELSE RuneSelf

\* C12: regToken returns the token of the longest operator of the
\* conformance mode that starts the input, and leaves as current rune the
\* first rune after that operator.
C12_RegTokenLongestMatch ==
    res.op = "regToken" =>
        /\ res.tok \in AllowedTokens
        /\ IsPrefix(Spelling(res.tok), input)
        /\ \A t \in AllowedTokens :
               IsPrefix(Spelling(t), input)
                   => Len(Spelling(t)) <= Len(Spelling(res.tok))
        /\ p.r = RuneAfter(input, Len(Spelling(res.tok)))
        /\ p.tok = res.tok

\* "<<-" is one token, in both modes, and nothing after it is consumed
C12_Witness ==
    /\ res.op = "regToken"
    /\ input = <<chLess, chLess, chMinus>>
    /\ res.tok = "dashHdoc"
    /\ p.r = RuneSelf

(***************************************************************************)
(* Deferral specification: the grammar driver calling next() over a        *)
(* script with heredoc operators, command substitutions and newlines.      *)
(* The driver queues a heredoc when it has read its stop-word and buries   *)
(* the pending ones while it is inside a command substitution.             *)
(***************************************************************************)
MaxSegs == 4       \* segments of a script

StopE == <<chUpperE>>
StopO == <<chUpperO>>

\* "<<E ", "<<-O ", a newline, the lines "E" and "O", "$(", ")" and an
\* escaped newline
DeferSegs ==
    { <<chLess, chLess>> \o StopE \o <<chSpace>>,
      <<chLess, chLess, chMinus>> \o StopO \o <<chSpace>>,
      <<chNewline>>,
      StopE \o <<chNewline>>,
      StopO \o <<chNewline>>,
      <<chDollar, chLparen>>,
      <<chRparen>>,
      <<chBackslash, chNewline>> }

\* position k holds a newline that no backslash escapes
IsLineEnd(text, k) ==
    text[k] = chNewline /\ (k = 1 \/ text[k - 1] # chBackslash)

\* No command substitution opens after the end of a line that holds a
\* heredoc operator: the bodies of the scripts are plain text.
PlainBodies(text) ==
    \A i, k, j \in 1..Len(text) :
        (i < k /\ k < j /\ text[i] = chLess /\ IsLineEnd(text, k))
            => text[j] # chDollar

DeferTexts == { t \in Texts(DeferSegs, MaxSegs) : PlainBodies(t) }

\* what a call of next() finds and what it leaves
Obs(q) ==
    [ heredocs |-> q.heredocs, buriedHdocs |-> q.buriedHdocs,
      err |-> q.err, quote |-> q.quote, r |-> q.r, at |-> getPos(q),
      bodies |-> q.bodies ]
Call(q, after) == [pre |-> Obs(q), post |-> Obs(after)]

DeferInit ==
    /\ input \in DeferTexts
    /\ p = rune(NewParser(input, MaxChunk, TRUE, FALSE, "noState"))
    /\ res = [op |-> "none", calls |-> <<>>, n |-> 0, saved |-> <<>>]
    /\ ast = NoAst

\* the driver takes the current token as (part of) a word or a separator
\* and asks for the next one
DeferNextStep ==
    /\ p.tok \notin {"hdoc", "dashHdoc", "dollParen", "rightParen", "_EOF"}
    /\ \E q1 \in {next(p)} :
           /\ p' = q1
           /\ res' = [res EXCEPT !.op = "next", !.calls = <<Call(p, q1)>>]
    /\ UNCHANGED <<input, ast>>

\* the heredoc case of doRedirect once the stop-word token q1 is there:
\* the heredoc is queued, its stop-word is read in hdocWord mode, and the
\* token that mode refused (a newline) is read in the mode restored
queueHdoc(q, q1, id) ==
    Only({ Only({ Only({ IF q3.tok = "illegalTok"
                         THEN Only({ [q |-> q4,
                                      calls |-> <<Call(q, q1), Call(q3, q4)>>]
                                     : q4 \in {next(q3)} })
                         ELSE [q |-> q3, calls |-> <<Call(q, q1)>>]
                         : q3 \in { [w.q EXCEPT !.quote = q.quote] } })
                  : w \in { wordParts(q2, <<>>) } })
           : q2 \in { [q1 EXCEPT !.quote = "hdocWord",
                                 !.heredocs = Append(@, [op |-> q.tok, stop |-> q1.val,
                                                         quoted |-> FALSE, id |-> id,
                                                         OpPos |-> q.pos])] } })

\* doRedirect at a heredoc operator
doRedirect(q, id) ==
    Only({ IF q1.newLine
           THEN [q |-> posErr(q1, q1.pos,
                              "heredoc stop word must be on the same line"),
                 calls |-> <<Call(q, q1)>>]
           ELSE IF q1.tok \notin {"_Lit", "_LitWord"}
           THEN [q |-> posErr(q1, q1.pos, "<< must be followed by a word"),
                 calls |-> <<Call(q, q1)>>]
           ELSE queueHdoc(q, q1, id)
           : q1 \in { next(q) } })

RedirectStep ==
    /\ p.tok \in {"hdoc", "dashHdoc"}
    /\ \E d \in {doRedirect(p, res.n + 1)} :
           /\ p' = d.q
           /\ res' = [res EXCEPT !.op = "redirect", !.calls = d.calls,
                                 !.n = @ + 1]
    /\ UNCHANGED <<input, ast>>

\* preNested(subCmd) and next() at "$("
preNested(q, quote) ==
    [q EXCEPT !.buriedHdocs = Len(q.heredocs), !.quote = quote]

NestStep ==
    /\ p.tok = "dollParen"
    /\ \E q1 \in {preNested(p, "subCmd")} :
       \E q2 \in {next(q1)} :
           /\ p' = q2
           /\ res' = [res EXCEPT !.op = "nest", !.calls = <<Call(q1, q2)>>,
                         !.saved = Append(@, [quote |-> p.quote,
                                     buriedHdocs |-> p.buriedHdocs])]
    /\ UNCHANGED <<input, ast>>

\* postNested(old) and next() at the ")" that closes a command substitution
postNested(q, s) ==
    [q EXCEPT !.quote = s.quote, !.buriedHdocs = s.buriedHdocs]

UnnestStep ==
    /\ p.tok = "rightParen"
    /\ res.saved # <<>>
    /\ \E q1 \in {postNested(p, res.saved[Len(res.saved)])} :
       \E q2 \in {next(q1)} :
           /\ p' = q2
           /\ res' = [res EXCEPT !.op = "unnest", !.calls = <<Call(q1, q2)>>,
                         !.saved = SubSeq(@, 1, Len(@) - 1)]
    /\ UNCHANGED <<input, ast>>

DeferNext == DeferNextStep \/ RedirectStep \/ NestStep \/ UnnestStep

SpecDefer == DeferInit /\ [][DeferNext]_vars

\* the first position from k on that holds neither a blank nor an escaped
\* newline
RECURSIVE AfterBlanks(_)
AfterBlanks(k) ==
    IF k > Len(input) THEN k
    ELSE IF input[k] \in {chSpace, chTab, chCR} THEN AfterBlanks(k + 1)
    ELSE IF input[k] = chBackslash /\ k < Len(input)
            /\ input[k + 1] = chNewline
    THEN AfterBlanks(k + 2)
    ELSE k

\* a call of next() that skips a newline in a space-skipping mode while
\* heredocs are pending and no error is set
SkipsNewlinePending(o) ==
    /\ o.quote \in allRegTokens \ {"hdocWord"}
    /\ o.r # RuneSelf
    /\ AfterBlanks(o.at) <= Len(input)
    /\ input[AfterBlanks(o.at)] = chNewline
    /\ Len(o.heredocs) > o.buriedHdocs
    /\ o.err = "nil"

Ids(s) == [k \in 1..Len(s) |-> s[k].id]

\* C9: no body is read before the end of the line that holds its operator,
\* and a call of next() that skips a newline while heredocs are pending
\* and no error is set returns with the bodies of all of them read, in the
\* order the heredocs were queued, and with none of them pending.
C9_HeredocDeferral ==
    /\ \A b \in 1..Len(p.bodies) :
           \E k \in 1..Len(input) :
               /\ IsLineEnd(input, k)
               /\ p.bodies[b].OpPos < k
               /\ k < p.bodies[b].at
    /\ \A c \in 1..Len(res.calls) :
           LET pre == res.calls[c].pre
               post == res.calls[c].post
               pending == SubSeq(pre.heredocs, pre.buriedHdocs + 1,
                                 Len(pre.heredocs))
           IN  SkipsNewlinePending(pre) =>
                   /\ post.heredocs = SubSeq(pre.heredocs, 1, pre.buriedHdocs)
                   /\ Len(post.bodies) >= Len(pre.bodies) + Len(pending)
                   /\ Ids(SubSeq(post.bodies, Len(pre.bodies) + 1,
                                 Len(pre.bodies) + Len(pending)))
                          = Ids(pending)

\* "<<E <<-O \nE\n": the newline is skipped with two heredocs pending and
\* both bodies are read, the one of "<<E" first
C9_Witness ==
    /\ res.op = "redirect"
    /\ Len(res.calls) = 2
    /\ SkipsNewlinePending(res.calls[2].pre)
    /\ Ids(res.calls[2].pre.heredocs) = <<1, 2>>
    /\ Ids(p.bodies) = <<1, 2>>
    /\ p.heredocs = <<>>

(***************************************************************************)
(* Node specification: the syntax trees of short scripts, with the         *)
(* positions the grammar driver gives their nodes, and Pos() and End() of  *)
(* every node of them.                                                     *)
(***************************************************************************)
MaxOff == 2        \* position of the first character of the script
MaxWord == 2       \* characters of a word

Nil == [type |-> "nil"]

LitNode(pos, len) == [type |-> "Lit", ValuePos |-> pos, ValueEnd |-> pos + len]
WordNode(pos, len) == [type |-> "Word", Parts |-> <<LitNode(pos, len)>>]
StmtNode(pos, cmd, semi, neg, assigns, redirs) ==
    [type |-> "Stmt", Cmd |-> cmd, Position |-> pos, Semicolon |-> semi,
     Negated |-> neg, Assigns |-> assigns, Redirs |-> redirs]
CallNode(pos, len) == [type |-> "CallExpr", Args |-> <<WordNode(pos, len)>>]
AssignNode(name, value) == [type |-> "Assign", Name |-> name, Value |-> value]
RedirectNode(opPos, word, hdoc) ==
    [type |-> "Redirect", OpPos |-> opPos, N |-> Nil, Word |-> word,
     Hdoc |-> hdoc]
DeclNode(pos, opts, assigns) ==
    [type |-> "DeclClause", Position |-> pos, Opts |-> opts,
     Assigns |-> assigns]

\* nodes.go: Pos() and End() of each node type
IsValid(pos) == pos > 0

LitPos(l) == l.ValuePos
LitEnd(l) == l.ValueEnd

WordPos(w) == LitPos(w.Parts[1])
WordEnd(w) == LitEnd(w.Parts[Len(w.Parts)])

wordLastEnd(ws) == IF Len(ws) = 0 THEN 0 ELSE WordEnd(ws[Len(ws)])

AssignPos(a) == IF a.Name = Nil THEN WordPos(a.Value) ELSE LitPos(a.Name)
AssignEnd(a) == IF a.Value # Nil THEN WordEnd(a.Value) ELSE LitEnd(a.Name) + 1

RedirectPos(r) == IF r.N # Nil THEN LitPos(r.N) ELSE r.OpPos
RedirectEnd(r) == WordEnd(r.Word)

CallExprPos(c) == WordPos(c.Args[1])
CallExprEnd(c) == WordEnd(c.Args[Len(c.Args)])

CommentPos(c) == c.Hash
CommentEnd(c) == c.Hash + Len(c.Text)

SubshellPos(s) == s.Lparen
SubshellEnd(s) == s.Rparen + 1

BlockPos(b) == b.Rbrace
BlockEnd(b) == b.Rbrace + 1

ArithmCmdPos(a) == a.Left
ArithmCmdEnd(a) == a.Right + 2

TestClausePos(t) == t.Left
TestClauseEnd(t) == t.Right + 2

DeclClausePos(d) == d.Position
DeclClauseEnd(d) ==
    IF Len(d.Assigns) > 0 THEN AssignEnd(d.Assigns[Len(d.Assigns)])
    ELSE wordLastEnd(d.Opts)

\* the Command interface
CommandPos(c) ==
    CASE c.type = "CallExpr" -> CallExprPos(c)
      [] c.type = "Subshell" -> SubshellPos(c)
      [] c.type = "Block" -> BlockPos(c)
      [] c.type = "ArithmCmd" -> ArithmCmdPos(c)
      [] c.type = "TestClause" -> TestClausePos(c)
      [] c.type = "DeclClause" -> DeclClausePos(c)
CommandEnd(c) ==
    CASE c.type = "CallExpr" -> CallExprEnd(c)
      [] c.type = "Subshell" -> SubshellEnd(c)
      [] c.type = "Block" -> BlockEnd(c)
      [] c.type = "ArithmCmd" -> ArithmCmdEnd(c)
      [] c.type = "TestClause" -> TestClauseEnd(c)
      [] c.type = "DeclClause" -> DeclClauseEnd(c)

StmtPos(s) == s.Position
StmtEnd(s) ==
    IF IsValid(s.Semicolon) THEN s.Semicolon + 1
    ELSE LET end0 == IF s.Negated THEN s.Position + 1 ELSE s.Position
             end1 == IF s.Cmd # Nil THEN CommandEnd(s.Cmd) ELSE end0
             end2 == IF Len(s.Assigns) > 0
                     THEN Max(end1, AssignEnd(s.Assigns[Len(s.Assigns)]))
                     ELSE end1
         IN  IF Len(s.Redirs) > 0
             THEN Max(end2, RedirectEnd(s.Redirs[Len(s.Redirs)]))
             ELSE end2

FilePos(f) == IF Len(f.Stmts) = 0 THEN 0 ELSE StmtPos(f.Stmts[1])
FileEnd(f) == IF Len(f.Stmts) = 0 THEN 0 ELSE StmtEnd(f.Stmts[Len(f.Stmts)])

\* the Node interface
NodePos(n) ==
    CASE n.type = "File" -> FilePos(n)
      [] n.type = "Stmt" -> StmtPos(n)
      [] n.type = "Assign" -> AssignPos(n)
      [] n.type = "Redirect" -> RedirectPos(n)
      [] n.type = "Word" -> WordPos(n)
      [] n.type = "Lit" -> LitPos(n)
      [] OTHER -> CommandPos(n)
NodeEnd(n) ==
    CASE n.type = "File" -> FileEnd(n)
      [] n.type = "Stmt" -> StmtEnd(n)
      [] n.type = "Assign" -> AssignEnd(n)
      [] n.type = "Redirect" -> RedirectEnd(n)
      [] n.type = "Word" -> WordEnd(n)
      [] n.type = "Lit" -> LitEnd(n)
      [] OTHER -> CommandEnd(n)

\* the nodes a node holds
SeqSet(s) == { s[k] : k \in 1..Len(s) }
Children(n) ==
    (CASE n.type = "File" -> SeqSet(n.Stmts)
       [] n.type = "Stmt" ->
              {n.Cmd} \cup SeqSet(n.Assigns) \cup SeqSet(n.Redirs)
       [] n.type = "Assign" -> {n.Name, n.Value}
       [] n.type = "Redirect" -> {n.N, n.Word, n.Hdoc}
       [] n.type = "Word" -> SeqSet(n.Parts)
       [] n.type = "CallExpr" -> SeqSet(n.Args)
       [] n.type \in {"Subshell", "Block"} -> SeqSet(n.Stmts)
       [] n.type \in {"ArithmCmd", "TestClause"} -> {n.X}
       [] n.type = "DeclClause" -> SeqSet(n.Opts) \cup SeqSet(n.Assigns)
       [] OTHER -> {}) \ {Nil}

RECURSIVE NodesOf(_)
NodesOf(n) == {n} \cup UNION { NodesOf(c) : c \in Children(n) }

\* The scripts: o is the position of the first character, w the length of
\* a word, and every word is a run of "a".
Rep(c, n) == [k \in 1..n |-> c]
WordText(w) == Rep(chLowerA, w)
declareText == <<100, 101, 99, 108, 97, 114, 101>>
Script(o, body, stmt) ==
    [text |-> Rep(chSpace, o - 1) \o body,
     file |-> [type |-> "File", Stmts |-> <<stmt>>]]

Scripts(o, w) ==
    LET a == WordText(w)
        sp == <<chSpace>>
        call(pos) == CallNode(pos, w)
    IN
    { \* a
      Script(o, a, StmtNode(o, call(o), 0, FALSE, <<>>, <<>>)),
      \* a;
      Script(o, a \o <<chSemi>>,
             StmtNode(o, call(o), o + w, FALSE, <<>>, <<>>)),
      \* ! a
      Script(o, <<chExcl>> \o sp \o a,
             StmtNode(o, call(o + 2), 0, TRUE, <<>>, <<>>)),
      \* !
      Script(o, <<chExcl>>, StmtNode(o, Nil, 0, TRUE, <<>>, <<>>)),
      \* >a
      Script(o, <<chGreater>> \o a,
             StmtNode(o, Nil, 0, FALSE, <<>>,
                 <<RedirectNode(o, WordNode(o + 1, w), Nil)>>)),
      \* a >a
      Script(o, a \o sp \o <<chGreater>> \o a,
             StmtNode(o, call(o), 0, FALSE, <<>>,
                 <<RedirectNode(o + w + 1, WordNode(o + w + 2, w), Nil)>>)),
      \* a=a
      Script(o, a \o <<chEquals>> \o a,
             StmtNode(o, Nil, 0, FALSE,
                 <<AssignNode(LitNode(o, w), WordNode(o + w + 1, w))>>, <<>>)),
      \* a=
      Script(o, a \o <<chEquals>>,
             StmtNode(o, Nil, 0, FALSE,
                 <<AssignNode(LitNode(o, w), Nil)>>, <<>>)),
      \* a=a a
      Script(o, a \o <<chEquals>> \o a \o sp \o a,
             StmtNode(o, call(o + 2 * w + 2), 0, FALSE,
                 <<AssignNode(LitNode(o, w), WordNode(o + w + 1, w))>>, <<>>)),
      \* { a; }
      Script(o, <<chLbrace>> \o sp \o a \o <<chSemi>> \o sp \o <<chRbrace>>,
             StmtNode(o,
                 [type |-> "Block", Lbrace |-> o, Rbrace |-> o + w + 4,
                  Stmts |-> <<StmtNode(o + 2, call(o + 2), o + 2 + w, FALSE,
                                       <<>>, <<>>)>>],
                 0, FALSE, <<>>, <<>>)),
      \* (a)
      Script(o, <<chLparen>> \o a \o <<chRparen>>,
             StmtNode(o,
                 [type |-> "Subshell", Lparen |-> o, Rparen |-> o + w + 1,
                  Stmts |-> <<StmtNode(o + 1, call(o + 1), 0, FALSE,
                                       <<>>, <<>>)>>],
                 0, FALSE, <<>>, <<>>)),
      \* ((a))
      Script(o, <<chLparen, chLparen>> \o a \o <<chRparen, chRparen>>,
             StmtNode(o,
                 [type |-> "ArithmCmd", Left |-> o, Right |-> o + w + 2,
                  X |-> WordNode(o + 2, w)],
                 0, FALSE, <<>>, <<>>)),
      \* [[ a ]]
      Script(o, <<chLbrack, chLbrack>> \o sp \o a \o sp
                  \o <<chRbrack, chRbrack>>,
             StmtNode(o,
                 [type |-> "TestClause", Left |-> o, Right |-> o + w + 4,
                  X |-> WordNode(o + 3, w)],
                 0, FALSE, <<>>, <<>>)),
      \* declare
      Script(o, declareText,
             StmtNode(o, DeclNode(o, <<>>, <<>>), 0, FALSE, <<>>, <<>>)),
      \* declare -a
      Script(o, declareText \o sp \o <<chMinus>> \o a,
             StmtNode(o, DeclNode(o, <<WordNode(o + 8, w + 1)>>, <<>>),
                      0, FALSE, <<>>, <<>>)),
      \* declare a=a
      Script(o, declareText \o sp \o a \o <<chEquals>> \o a,
             StmtNode(o,
                 DeclNode(o, <<>>, <<AssignNode(LitNode(o + 8, w),
                                         WordNode(o + w + 9, w))>>),
                 0, FALSE, <<>>, <<>>)),
      \* a <<E, the body a and the line E
      Script(o, a \o sp \o <<chLess, chLess, chUpperE, chNewline>>
                  \o a \o <<chNewline, chUpperE, chNewline>>,
             StmtNode(o, call(o), 0, FALSE, <<>>,
                 <<RedirectNode(o + w + 1, WordNode(o + w + 3, 1),
                                WordNode(o + w + 5, w + 1))>>)) }

AstInit ==
    /\ \E o \in 1..MaxOff, w \in 1..MaxWord :
           \E s \in Scripts(o, w) :
               /\ input = s.text
               /\ ast = [on |-> TRUE, file |-> s.file]
    /\ p = NewParser(input, MaxChunk, TRUE, FALSE, "noState")
    /\ res = NoRes

\* Pos() and End() of a node of the tree
SpanStep ==
    /\ \E n \in NodesOf(ast.file) :
           res' = [op |-> "span", type |-> n.type,
                   pos |-> NodePos(n), end |-> NodeEnd(n)]
    /\ UNCHANGED <<p, input, ast>>

\* Pos() and End() of a node of the tree and of a node it holds
ChildStep ==
    /\ \E n \in NodesOf(ast.file) : \E c \in Children(n) :
           res' = [op |-> "child", type |-> n.type,
                   pos |-> NodePos(n), end |-> NodeEnd(n),
                   ctype |-> c.type,
                   cpos |-> NodePos(c), cend |-> NodeEnd(c)]
    /\ UNCHANGED <<p, input, ast>>

AstNext == SpanStep \/ ChildStep

SpecAst == AstInit /\ [][AstNext]_vars

\* C1: Pos() <= End() for every node.
C1_PosNotAfterEnd ==
    res.op = "span" => res.pos <= res.end

\* C2: the span of a node holds the span of every node it holds.
C2_ParentHoldsChild ==
    res.op = "child" => (res.pos <= res.cpos /\ res.cend <= res.end)

\* The constructs between two delimiters, and the length of the delimiters
Delimited == {"Subshell", "Block", "ArithmCmd", "TestClause"}
DelimLen(type) == IF type \in {"ArithmCmd", "TestClause"} THEN 2 ELSE 1
\* the position of the first character of the script that is no space
OpenPos == CHOOSE k \in 1..Len(input) :
               input[k] # chSpace /\ \A j \in 1..(k - 1) : input[j] = chSpace
\* the closing delimiter is the end of the script
ClosePos(type) == Len(input) - DelimLen(type) + 1

\* C26: a construct between two delimiters starts at its opening delimiter
\* and ends at the position of its closing delimiter plus the length of
\* that delimiter.
C26_DelimiterSpan ==
    (res.op = "span" /\ res.type \in Delimited) =>
        /\ res.pos = OpenPos
        /\ res.end = ClosePos(res.type) + DelimLen(res.type)

(***************************************************************************)
(* Expansion operator specification: paramToken and arithmToken applied at *)
(* the first rune of a run of operator characters, as next() applies them  *)
(* in the parameter-expansion and arithmetic quote states.                 *)
(***************************************************************************)
ExpChars ==
    { <<c>> : c \in {chRbrace, chHash, chColon, chMinus, chPlus, chEquals,
                     chQuest, chPercent, chLbrack, chRbrack, chSlash, chCaret,
                     chComma, chAt, chExcl, chStar, chLparen, chRparen,
                     chLess, chGreater, chPipe, chAmp} }

ExpInit ==
    /\ input \in Texts(ExpChars, MaxOpRunes)
    /\ \E chunk \in 1..MaxChunk :
           p = rune(NewParser(input, chunk, TRUE, FALSE, "paramExpName"))
    /\ res = NoRes
    /\ ast = NoAst

\* p.tok = p.paramToken(r), at a rune for which next() calls it
ParamTokenStep ==
    /\ res.op = "none"
    /\ paramOps(p.r)
    /\ \E t \in {paramToken(p, p.r)} :
           /\ p' = setTok(t)
           /\ res' = [op |-> "paramToken", tok |-> t.tok]
    /\ UNCHANGED <<input, ast>>

\* p.tok = p.arithmToken(r), at a rune for which next() calls it
ArithmTokenStep ==
    /\ res.op = "none"
    /\ arithmOps(p.r)
    /\ \E t \in {arithmToken(p, p.r)} :
           /\ p' = setTok(t)
           /\ res' = [op |-> "arithmToken", tok |-> t.tok]
    /\ UNCHANGED <<input, ast>>

ExpNext == ParamTokenStep \/ ArithmTokenStep

SpecExp == ExpInit /\ [][ExpNext]_vars

\* the spelling of the operators of a parameter expansion
ParamSpelling ==
    [ rightBrace |-> <<chRbrace>>, colon |-> <<chColon>>,
      colPlus |-> <<chColon, chPlus>>, colMinus |-> <<chColon, chMinus>>,
      colQuest |-> <<chColon, chQuest>>, colAssgn |-> <<chColon, chEquals>>,
      plus |-> <<chPlus>>, minus |-> <<chMinus>>, quest |-> <<chQuest>>,
      assgn |-> <<chEquals>>, perc |-> <<chPercent>>,
      dblPerc |-> <<chPercent, chPercent>>, hash |-> <<chHash>>,
      dblHash |-> <<chHash, chHash>>, leftBrack |-> <<chLbrack>>,
      rightBrack |-> <<chRbrack>>, slash |-> <<chSlash>>,
      dblSlash |-> <<chSlash, chSlash>>, caret |-> <<chCaret>>,
      dblCaret |-> <<chCaret, chCaret>>, comma |-> <<chComma>>,
      dblComma |-> <<chComma, chComma>>, at |-> <<chAt>> ]

\* tok is the token of the longest operator of the table that starts the
\* input, and the current rune is the first rune after that operator
LongestOf(table, tok) ==
    /\ tok \in DOMAIN table
    /\ IsPrefix(table[tok], input)
    /\ \A t \in DOMAIN table :
           IsPrefix(table[t], input) => Len(table[t]) <= Len(table[tok])
    /\ p.r = RuneAfter(input, Len(table[tok]))
    /\ p.tok = tok

\* C13: paramToken returns, for every operator character of a parameter
\* expansion, the token of its own spelling: the token of the pair when
\* the pair starts the input, the token of the single character otherwise.
C13_ParamTokenOwnSpelling ==
    res.op = "paramToken" => LongestOf(ParamSpelling, res.tok)

\* the spelling of the operators of an arithmetic expression
ArithmSpelling ==
    [ exclMark |-> <<chExcl>>, nequal |-> <<chExcl, chEquals>>,
      assgn |-> <<chEquals>>, equal |-> <<chEquals, chEquals>>,
      leftParen |-> <<chLparen>>, rightParen |-> <<chRparen>>,
      and |-> <<chAmp>>, andAnd |-> <<chAmp, chAmp>>,
      andAssgn |-> <<chAmp, chEquals>>,
      or |-> <<chPipe>>, orOr |-> <<chPipe, chPipe>>,
      orAssgn |-> <<chPipe, chEquals>>,
      rdrIn |-> <<chLess>>, hdoc |-> <<chLess, chLess>>,
      shlAssgn |-> <<chLess, chLess, chEquals>>,
      lequal |-> <<chLess, chEquals>>,
      rdrOut |-> <<chGreater>>, appOut |-> <<chGreater, chGreater>>,
      shrAssgn |-> <<chGreater, chGreater, chEquals>>,
      gequal |-> <<chGreater, chEquals>>,
      plus |-> <<chPlus>>, addAdd |-> <<chPlus, chPlus>>,
      addAssgn |-> <<chPlus, chEquals>>,
      minus |-> <<chMinus>>, subSub |-> <<chMinus, chMinus>>,
      subAssgn |-> <<chMinus, chEquals>>,
      perc |-> <<chPercent>>, remAssgn |-> <<chPercent, chEquals>>,
      star |-> <<chStar>>, power |-> <<chStar, chStar>>,
      mulAssgn |-> <<chStar, chEquals>>,
      slash |-> <<chSlash>>, quoAssgn |-> <<chSlash, chEquals>>,
      caret |-> <<chCaret>>, xorAssgn |-> <<chCaret, chEquals>>,
      rightBrack |-> <<chRbrack>>, comma |-> <<chComma>>,
      quest |-> <<chQuest>>, colon |-> <<chColon>> ]

\* C14: arithmToken returns the token of the longest arithmetic operator
\* that starts the input and leaves as current rune the first rune after
\* that operator.
C14_ArithmTokenLongestMatch ==
    res.op = "arithmToken" => LongestOf(ArithmSpelling, res.tok)

\* "<<=" is one token: the third level of the cascade of '<'
C14_Witness ==
    /\ res.op = "arithmToken"
    /\ input = <<chLess, chLess, chEquals>>
    /\ res.tok = "shlAssgn"
    /\ p.r = RuneSelf

(***************************************************************************)
(* Token specification: the parser at the first rune of a text the grammar *)
(* driver reads in one quote state, and next() called until the text is    *)
(* used up.                                                                *)
(***************************************************************************)
MaxLexRunes == 3   \* characters of the text

\* the last one is a byte that starts no UTF-8 encoding
LexChars ==
    { <<chLowerA>>, <<chSpace>>, <<chNewline>>, <<chSemi>>, <<chDquote>>,
      <<chSquote>>, <<chDollar>>, <<chBquote>>, <<chBackslash>>, <<chLess>>,
      <<chQuest>>, <<chLparen>>, <<255>> }

LexModes ==
    {"noState", "subCmdBckquo", "dblQuotes", "sglQuotes", "hdocBody",
     "paramExpName", "arithmExpr"}

LexInit ==
    /\ input \in Texts(LexChars, MaxLexRunes)
    /\ \E quote \in LexModes, bashMode \in BOOLEAN :
           \E q \in {rune(NewParser(input, MaxChunk, bashMode, FALSE, quote))} :
               p = IF quote = "hdocBody"
                   THEN [q EXCEPT !.hdocStopNil = FALSE, !.hdocStop = StopWord]
                   ELSE q
    /\ p.err = "nil"
    /\ res = NoRes
    /\ ast = NoAst

\* p.next(), by a grammar driver that goes on as long as it has not crashed
LexNextStep ==
    /\ p.err # "panic"
    /\ p' = next(p)
    /\ res' = [op |-> "next", err |-> p.err, r |-> p.r, from |-> getPos(p),
               pos |-> p.pos, comments |-> p.Comments]
    /\ UNCHANGED <<input, ast>>

LexNext == LexNextStep

SpecLex == LexInit /\ [][LexNext]_vars

\* next() has returned
Returned == res.op = "next" /\ p.err # "panic"

GlobTokens == {"globQuest", "globStar", "globPlus", "globAt", "globExcl"}

\* C11: in POSIX mode next() never leaves an extended-glob operator token
\* in p.tok.
C11_GlobTokensOnlyInBash ==
    (Returned /\ ~p.bash) => p.tok \notin GlobTokens

\* C18: a call of next() made with p.err set leaves p.tok = _EOF, in every
\* quote state.
C18_ErrorMeansEOF ==
    (Returned /\ res.err # "nil") => p.tok = "_EOF"

LitTokens == {"_Lit", "_LitWord", "_LitRedir"}

\* the first position from k on of a backquote, '"' or '$' that no
\* backslash escapes, the escapes counted from k; Len(input) + 1 if none
RECURSIVE FirstBreak(_)
FirstBreak(k) ==
    IF k > Len(input) THEN Len(input) + 1
    ELSE IF input[k] = chBackslash THEN FirstBreak(k + 2)
    ELSE IF input[k] \in {chBquote, chDquote, chDollar} THEN k
    ELSE FirstBreak(k + 1)

\* C15: in double quotes a literal that next() starts at a rune other than
\* a backquote, '"' or '$' holds every rune up to the first unescaped
\* backquote, '"' or '$', or up to the end of input: spaces, newlines and
\* operator characters are part of it and that character is left as the
\* current rune.
C15_DquoteLiteralEndsAtBreak ==
    (Returned /\ p.quote = "dblQuotes" /\ res.err = "nil"
              /\ res.r \notin {RuneSelf, chBquote, chDquote, chDollar}) =>
        LET k == FirstBreak(res.from) IN
        /\ p.tok \in {"_Lit", "_LitWord"}
        /\ p.val = SubSeq(input, res.from, k - 1)
        /\ p.r = IF k <= Len(input) THEN input[k] ELSE RuneSelf

\* a newline and a semicolon are the literal, the '$' after them ends it
C15_Witness ==
    /\ Returned
    /\ p.quote = "dblQuotes"
    /\ input = <<chNewline, chSemi, chDollar>>
    /\ res.from = 1
    /\ p.val = <<chNewline, chSemi>>
    /\ p.r = chDollar

\* text without its line continuations: every backslash escapes the byte
\* after it, and an escaped newline is dropped with its backslash
RECURSIVE Elide(_)
Elide(text) ==
    IF text = <<>> THEN <<>>
    ELSE IF Head(text) = chBackslash /\ Len(text) >= 2
    THEN (IF text[2] = chNewline THEN <<>> ELSE SubSeq(text, 1, 2))
             \o Elide(SubSeq(text, 3, Len(text)))
    ELSE <<Head(text)>> \o Elide(Tail(text))

\* the last byte of text is a backslash that no backslash escapes
RECURSIVE EndsInBackslash(_)
EndsInBackslash(text) ==
    IF text = <<>> THEN FALSE
    ELSE IF Head(text) = chBackslash
    THEN Len(text) = 1 \/ EndsInBackslash(SubSeq(text, 3, Len(text)))
    ELSE EndsInBackslash(Tail(text))

\* the source text of the literal next() has returned
LitText == SubSeq(input, p.pos, getPos(p) - 1)

\* C16: the value of a literal is its source text with every escaped
\* newline dropped together with its backslash and every other escaped
\* rune kept with its backslash, and the rune that ends the literal is
\* not an escaped one; in every quote state.
C16_EscapesCopiedNewlineElided ==
    (Returned /\ res.err = "nil" /\ p.tok \in LitTokens) =>
        /\ p.val = Elide(LitText)
        /\ p.r # RuneSelf => ~EndsInBackslash(LitText)

\* the byte after the current rune is b
NextByteIs(b) ==
    getPos(p) + 1 <= Len(input) /\ input[getPos(p) + 1] = b

GlobChars == {chQuest, chStar, chPlus, chAt, chExcl}

\* the literal ended at a character that the claim lists as introducing an
\* expansion
ClaimedExpansion ==
    \/ p.r \in {chBquote, chDollar, chDquote}
    \/ /\ p.quote \in allRegTokens
       /\ p.r = chSquote \/ (p.r \in GlobChars /\ NextByteIs(chLparen))

\* C17 as stated: a literal of a non-heredoc mode is _Lit exactly when it
\* ended at an expansion-introducing character and _LitWord exactly when
\* it did not.
C17_WordIffBoundary ==
    (Returned /\ p.tok \in LitTokens
              /\ p.quote \notin {"hdocBody", "hdocBodyTabs"}) =>
        /\ p.tok = "_Lit" <=> ClaimedExpansion
        /\ p.tok = "_LitWord" <=> ~ClaimedExpansion

\* the literal ended at a character that introduces an expansion in the
\* quote state of the parser
ExpansionFollows ==
    \/ p.r = chDollar
    \/ p.r = chBquote /\ p.quote # "subCmdBckquo"
    \/ p.r = chDquote /\ p.quote # "dblQuotes"
    \/ /\ p.quote \in allRegTokens
       /\ \/ p.r = chSquote
          \/ /\ p.r \in GlobChars \cup {chLess, chGreater}
             /\ NextByteIs(chLparen)

\* the literal ended at a redirection operator
RedirFollows ==
    /\ p.quote \in allRegTokens
    /\ p.r \in {chLess, chGreater}
    /\ ~NextByteIs(chLparen)

\* C17, amended: a literal of a non-heredoc mode is _Lit exactly when it
\* ended at a character that introduces an expansion in its quote state,
\* _LitRedir exactly when, in a regular mode, it ended at '<' or '>' not
\* followed by '(', and _LitWord in every other case.
C17_LitClassification ==
    (Returned /\ p.tok \in LitTokens
              /\ p.quote \notin {"hdocBody", "hdocBodyTabs"}) =>
        p.tok = IF ExpansionFollows THEN "_Lit"
                ELSE IF RedirFollows THEN "_LitRedir"
                ELSE "_LitWord"

\* the name of a parameter expansion followed by a '$'
C17_Witness ==
    /\ Returned
    /\ p.quote = "paramExpName"
    /\ input = <<chLowerA, chDollar>>
    /\ p.tok = "_Lit"
    /\ p.val = <<chLowerA>>
    /\ p.r = chDollar

(***************************************************************************)
(* Comment specification: next() called again and again in the regular     *)
(* mode over texts with `#`, blanks, newlines, a letter and two runes of    *)
(* two bytes, with and without ParseComments.                              *)
(***************************************************************************)
MaxCmtRunes == 4   \* characters of the text

\* the last two are U+0080 and U+00E9
CmtChars ==
    { <<chHash>>, <<chLowerA>>, <<chSpace>>, <<chNewline>>, <<194, 128>>,
      <<195, 169>> }

CmtInit ==
    /\ input \in Texts(CmtChars, MaxCmtRunes)
    /\ \E chunk \in 1..MaxChunk, comments \in BOOLEAN :
           p = rune(NewParser(input, chunk, TRUE, comments, "noState"))
    /\ res = NoRes
    /\ ast = NoAst

SpecCmt == CmtInit /\ [][LexNext]_vars

\* the position of the first byte of the rune that was current when next()
\* was called: one past the input when it was called at the end of input
CallStart ==
    IF res.from > Len(input) THEN res.from
    ELSE res.from + 1 - RuneLen(res.r)

\* the first position from k on that holds a newline, one past the input
\* when there is none
RECURSIVE EndOfLine(_)
EndOfLine(k) ==
    IF k > Len(input) \/ input[k] = chNewline THEN k ELSE EndOfLine(k + 1)

\* the text read from position k on in the regular mode: the positions of
\* the `#` of the comments that come before the next token, and where that
\* token starts (one past the input when there is none)
RECURSIVE Scan(_)
Scan(k) ==
    IF k > Len(input) THEN [hashes |-> <<>>, at |-> k]
    ELSE IF input[k] \in {chSpace, chTab, chCR, chNewline} THEN Scan(k + 1)
    ELSE IF input[k] = chHash
    THEN LET rest == Scan(EndOfLine(k))
         IN  [hashes |-> <<k>> \o rest.hashes, at |-> rest.at]
    ELSE [hashes |-> <<>>, at |-> k]

\* the comments the last call of next() appended
Appended ==
    SubSeq(p.Comments, Len(res.comments) + 1, Len(p.Comments))

\* C24: without ParseComments File.Comments stays empty; with it a call of
\* next() appends one Comment for each `#` comment it meets, with Hash the
\* position of the `#`, and nothing else; in both cases the comment is
\* skipped up to the end of its line: the token returned starts where the
\* first token after the comments starts, and it is _EOF only when there is
\* none.
C24_CommentsOnlyWhenCaptured ==
    Returned =>
        /\ ~p.parseComments => p.Comments = <<>>
        /\ p.parseComments =>
               /\ SubSeq(p.Comments, 1, Len(res.comments)) = res.comments
               /\ [k \in 1..Len(Appended) |-> Appended[k].Hash]
                      = Scan(CallStart).hashes
        /\ Scan(CallStart).hashes # <<>> =>
               IF p.tok = "_EOF"
               THEN Scan(CallStart).at > Len(input)
               ELSE p.pos = Scan(CallStart).at

\* C27: a Comment starts at its `#` and ends right after its last
\* character: at the newline that ends it, or one past the input when the
\* input ends first.
C27_CommentSpan ==
    Returned =>
        \A k \in 1..Len(Appended) :
            /\ CommentPos(Appended[k]) \in 1..Len(input)
            /\ input[CommentPos(Appended[k])] = chHash
            /\ CommentEnd(Appended[k]) = EndOfLine(CommentPos(Appended[k]))

\* the bytes of the input from position k on, as many as text has
SourceAt(k, text) == SubSeq(input, k, k + Len(text) - 1)

\* C31: a string that endLit returns is made of bytes of the input in the
\* order of the input: the text of a Comment is the input after its `#`,
\* the value of a literal is the input from the start of the token on, and
\* neither holds a byte the input does not have there, also at the end of
\* the input.
C31_LiteralBytesAreInputBytes ==
    Returned =>
        /\ \A k \in 1..Len(Appended) :
               /\ Appended[k].Hash + Len(Appended[k].Text) <= Len(input)
               /\ Appended[k].Text
                      = SourceAt(Appended[k].Hash + 1, Appended[k].Text)
        /\ (p.tok \in LitTokens /\ Len(p.Comments) = Len(res.comments)) =>
               /\ p.pos + Len(p.val) - 1 <= Len(input)
               /\ p.val = SourceAt(p.pos, p.val)

(***************************************************************************)
(* Token position specification: next() called again and again, in the     *)
(* regular mode and inside quotes, over texts with runes of two and three  *)
(* bytes and a byte that starts no encoding, read one or two bytes per     *)
(* Read.                                                                   *)
(***************************************************************************)
\* the last three are U+00E9, U+20AC and a byte that is no encoding
StartChars ==
    { <<chLowerA>>, <<chSpace>>, <<chNewline>>, <<chDquote>>, <<195, 169>>,
      <<226, 130, 172>>, <<255>> }

StartModes == {"noState", "dblQuotes", "sglQuotes"}

\* letters after the text, so that a rune of the text can be read without
\* a refill when the reader delivers the whole input at once
StartPad == <<chLowerA, chLowerA, chLowerA, chLowerA>>

StartInit ==
    /\ input \in { t \o StartPad : t \in Texts(StartChars, MaxLexRunes) }
    /\ \E chunk \in {1, BufSize}, quote \in StartModes :
           p = rune(NewParser(input, chunk, TRUE, FALSE, quote))
    /\ res = NoRes
    /\ ast = NoAst

SpecStart == StartInit /\ [][LexNext]_vars

\* the positions at which the runes of the input start, from position k on
\* (a byte that is no encoding counts as a rune of one byte)
RECURSIVE RuneStarts(_)
RuneStarts(k) ==
    IF k > Len(input) THEN {}
    ELSE {k} \cup RuneStarts(k + DecodeRune(SubSeq(input, k, Len(input))).w)

\* the start of the rune that holds the byte at position k
RuneStartOf(k) ==
    CHOOSE s \in RuneStarts(1) :
        s <= k /\ \A t \in RuneStarts(1) : t <= k => t <= s

\* where the token of the last call starts: at the rune that was current
\* inside quotes, after the blanks in the regular mode
TokenStart ==
    IF p.quote \in allRegTokens
    THEN Scan(RuneStartOf(res.from)).at
    ELSE RuneStartOf(res.from)

\* C25: a call of next() that returns a token leaves in p.pos a position
\* that is not before the one the call found there, is valid, and is the
\* position of the first byte of the first rune of the token.
C25_TokenPosMonotonicAtFirstByte ==
    (Returned /\ p.tok # "_EOF") =>
        /\ res.pos <= p.pos
        /\ p.pos >= 1
        /\ p.pos = TokenStart


(***************************************************************************)
(* The wcloud `context` command (cmd/wcloud/cli.go): p is the contexts     *)
(* file of the user, input the arguments of the last call, res what the    *)
(* call printed and the status the process ended with.                     *)
(***************************************************************************)
MaxArgs == 2       \* arguments after `context`

CtxNames == {"dev", "prod", "old"}

\* ContextsFile{}: the zero value
NoContexts == [Current |-> "", Contexts |-> {}]

\* The file: kind "file" holds a ContextsFile (the names of its Contexts map
\* and Current), "missing" does not exist, "unreadable" makes ReadFile fail
\* with another error, "garbled" is no YAML.
CtxFiles ==
    { [kind |-> "file", Current |-> c, Contexts |-> m]
      : c \in CtxNames \cup {""}, m \in SUBSET CtxNames }
    \cup { [kind |-> k, Current |-> "", Contexts |-> {}]
           : k \in {"missing", "unreadable", "garbled"} }

CtxArgs == UNION { [1..n -> CtxNames] : n \in 0..MaxArgs }

\* what ioutil.WriteFile does: writes the file, fails when it opens it, or
\* fails after it has truncated it
WriteOutcomes == {"written", "notOpened", "cut"}

loadContexts(f) ==
    IF f.kind = "missing" THEN [contexts |-> NoContexts, err |-> "nil"]
    ELSE IF f.kind = "unreadable" THEN [contexts |-> NoContexts, err |-> "read"]
    ELSE IF f.kind = "garbled" THEN [contexts |-> NoContexts, err |-> "yaml"]
    ELSE [contexts |-> [Current |-> f.Current, Contexts |-> f.Contexts],
          err |-> "nil"]

saveContexts(f, i, w) ==
    IF w = "written"
    THEN [file |-> [kind |-> "file", Current |-> i.Current,
                    Contexts |-> i.Contexts], err |-> "nil"]
    ELSE IF w = "notOpened" THEN [file |-> f, err |-> "write"]
    ELSE [file |-> [kind |-> "garbled", Current |-> "", Contexts |-> {}],
          err |-> "write"]

\* the process after context(args): the file, what was printed and the
\* exit status (0 also when context returns to main)
Exit(f, out, status) == [file |-> f, out |-> out, status |-> status]

\* context(args); the not-found message of the branch without argument
\* is built from args[0], an index out of range of the empty args: a
\* run-time panic, the process ends with status 2 and a stack trace
context(f, args, w) ==
    IF Len(args) > 1 THEN Exit(f, "usage", 0)
    ELSE Only({
        IF l.err # "nil" THEN Exit(f, "error", 1)
        ELSE IF Len(args) = 1 THEN
            IF args[1] \notin l.contexts.Contexts
            THEN Exit(f, "notFound", 1)
            ELSE Only({ IF sv.err # "nil" THEN Exit(sv.file, "error", 1)
                        ELSE Exit(sv.file, "", 0)
                        : sv \in { saveContexts(f,
                              [l.contexts EXCEPT !.Current = args[1]], w) } })
        ELSE IF l.contexts.Current = "" THEN Exit(f, "none", 0)
        ELSE IF l.contexts.Current \notin l.contexts.Contexts
        THEN Exit(f, "panic", 2)
        ELSE Exit(f, "current", 0)
        : l \in { loadContexts(f) } })

CtxInit ==
    /\ p \in CtxFiles
    /\ input = <<>>
    /\ res = NoRes
    /\ ast = NoAst

\* wcloud context args...
ContextStep ==
    /\ \E args \in CtxArgs, w \in WriteOutcomes :
           \E e \in { context(p, args, w) } :
               /\ p' = e.file
               /\ input' = args
               /\ res' = [op |-> "context", out |-> e.out,
                          status |-> e.status, pre |-> p]
    /\ UNCHANGED ast

CtxNext == ContextStep

SpecCtx == CtxInit /\ [][CtxNext]_vars

\* C34: the command does not crash; without an argument and with a current
\* context that has no entry in Contexts it prints the not-found message
\* and ends with status 1; with a name that has no entry it ends with
\* status 1 and the file is as it was.
C34_ContextNeverCrashes ==
    res.op = "context" =>
        /\ res.status \in {0, 1}
        /\ (/\ input = <<>>
            /\ res.pre.kind = "file"
            /\ res.pre.Current # ""
            /\ res.pre.Current \notin res.pre.Contexts)
               => (res.out = "notFound" /\ res.status = 1)
        /\ (Len(input) = 1 /\ input[1] \notin res.pre.Contexts)
               => (res.status = 1 /\ p = res.pre)

====
